---- MODULE Spec2Model ----
(***************************************************************************)
(* REDscript conflict reporter: the annotation scanner (scan_file), the    *)
(* report builder (build_report) and the impact scorer                     *)
(* (compute_impact_unified), modelled from                                 *)
(* src/redscript_conflicts_report.py and src/common/common_impact.py.      *)
(*                                                                         *)
(* Text is a sequence of one-character strings, so that the regular        *)
(* expressions, strip(), split() and lower() of the source are computed    *)
(* character by character.                                                 *)
(***************************************************************************)
EXTENDS Integers, Sequences, FiniteSets, TLC

(***************************************************************************)
(* Text primitives (Python str / re behaviour on ASCII text)               *)
(***************************************************************************)

\* str.strip() and the regex class \s, on the characters a line can hold
WS == {" ", "\t"}

UpperSeq == <<"A", "B", "C", "D", "E", "F", "G", "H", "I", "J", "K", "L", "M",
              "N", "O", "P", "Q", "R", "S", "T", "U", "V", "W", "X", "Y", "Z">>

LowerSeq == <<"a", "b", "c", "d", "e", "f", "g", "h", "i", "j", "k", "l", "m",
              "n", "o", "p", "q", "r", "s", "t", "u", "v", "w", "x", "y", "z">>

Digits == {"0", "1", "2", "3", "4", "5", "6", "7", "8", "9"}

\* the regex class [A-Za-z0-9_], also the \w of \b
IdentChars == {UpperSeq[i] : i \in 1..26} \cup {LowerSeq[i] : i \in 1..26}
                \cup Digits \cup {"_"}

LowerChar(c) ==
    IF \E i \in 1..26 : UpperSeq[i] = c
    THEN LowerSeq[CHOOSE i \in 1..26 : UpperSeq[i] = c]
    ELSE c

\* str.lower()
Lower(s) == [i \in 1..Len(s) |-> LowerChar(s[i])]

\* first index j >= i with s[j] outside S, Len(s)+1 when there is none
SkipWhile(s, i, S) ==
    CHOOSE j \in i..(Len(s) + 1) :
        /\ (j = Len(s) + 1 \/ s[j] \notin S)
        /\ \A k \in i..(j - 1) : s[k] \in S

SkipWS(s, i) == SkipWhile(s, i, WS)

StartsWithAt(s, i, pat) ==
    /\ i >= 1
    /\ i + Len(pat) - 1 <= Len(s)
    /\ \A k \in 1..Len(pat) : s[i + k - 1] = pat[k]

\* the Python operator "pat in s"
Contains(s, pat) == \E p \in 1..(Len(s) + 1) : StartsWithAt(s, p, pat)

\* str.find(pat, from), 1-based, 0 when absent
IndexOf(s, pat, from) ==
    LET ps == {p \in from..(Len(s) + 1) : StartsWithAt(s, p, pat)}
    IN  IF ps = {} THEN 0 ELSE CHOOSE p \in ps : \A q \in ps : p <= q

\* str.lstrip()
LStrip(s) == SubSeq(s, SkipWS(s, 1), Len(s))

\* str.strip()
Strip(s) ==
    LET a == SkipWS(s, 1)
    IN  IF a > Len(s) THEN <<>>
        ELSE LET b == CHOOSE j \in a..Len(s) :
                          s[j] \notin WS /\ \A k \in (j + 1)..Len(s) : s[k] \in WS
             IN  SubSeq(s, a, b)

RECURSIVE Split(_, _)
\* str.split(sep) for a one-character separator
Split(s, sep) ==
    LET p == IndexOf(s, <<sep>>, 1)
    IN  IF p = 0 THEN <<s>>
        ELSE <<SubSeq(s, 1, p - 1)>> \o Split(SubSeq(s, p + 1, Len(s)), sep)

\* printable ASCII in code-point order, from space (32) to ~ (126); code 96
\* (the grave accent) is kept as a placeholder that no text holds
AsciiSeq == <<" ", "!", "\"", "#", "$", "%", "&", "'", "(", ")", "*", "+",
             ",", "-", ".", "/", "0", "1", "2", "3", "4", "5", "6", "7",
             "8", "9", ":", ";", "<", "=", ">", "?", "@", "A", "B", "C",
             "D", "E", "F", "G", "H", "I", "J", "K", "L", "M", "N", "O",
             "P", "Q", "R", "S", "T", "U", "V", "W", "X", "Y", "Z", "[",
             "\\", "]", "^", "_", "(96)", "a", "b", "c", "d", "e", "f", "g",
             "h", "i", "j", "k", "l", "m", "n", "o", "p", "q", "r", "s",
             "t", "u", "v", "w", "x", "y", "z", "{", "|", "}", "~">>

\* ord(c)
CharCode(c) ==
    IF c = "\t" THEN 9
    ELSE 31 + (CHOOSE i \in 1..Len(AsciiSeq) : AsciiSeq[i] = c)

\* the Python order a < b on str
StrLess(a, b) ==
    \E k \in 1..(Len(b)) :
        /\ \A i \in 1..(k - 1) : i <= Len(a) /\ a[i] = b[i]
        /\ (k > Len(a) \/ CharCode(a[k]) < CharCode(b[k]))

RECURSIVE SortedSeq(_)
\* sorted(S) for a set of str
SortedSeq(S) ==
    IF S = {} THEN <<>>
    ELSE LET m == CHOOSE x \in S : \A y \in S \ {x} : StrLess(x, y)
         IN  <<m>> \o SortedSeq(S \ {m})

RECURSIVE Join(_, _)
\* sep.join(parts)
Join(parts, sep) ==
    IF parts = <<>> THEN <<>>
    ELSE IF Len(parts) = 1 THEN parts[1]
    ELSE parts[1] \o sep \o Join(Tail(parts), sep)

EndsWith(s, suf) == Len(s) >= Len(suf) /\ StartsWithAt(s, Len(s) - Len(suf) + 1, suf)

\* list.index(x), 1-based; only used when x is in the list
ListIndex(list, x) == CHOOSE i \in 1..Len(list) : list[i] = x /\ \A j \in 1..(i - 1) : list[j] # x

InList(list, x) == \E i \in 1..Len(list) : list[i] = x

(***************************************************************************)
(* Sample text                                                             *)
(***************************************************************************)

\* 'replaceMethod'
T_replaceMethod == <<"r", "e", "p", "l", "a", "c", "e", "M", "e", "t", "h", "o", "d">>
\* 'wrapMethod'
T_wrapMethod == <<"w", "r", "a", "p", "M", "e", "t", "h", "o", "d">>
\* 'replaceGlobal'
T_replaceGlobal == <<"r", "e", "p", "l", "a", "c", "e", "G", "l", "o", "b", "a", "l">>
\* '<global>'
T_global == <<"<", "g", "l", "o", "b", "a", "l", ">">>
\* '<unknown>'
T_unknown == <<"<", "u", "n", "k", "n", "o", "w", "n", ">">>
\* 'func'
T_func == <<"f", "u", "n", "c">>

(***************************************************************************)
(* scan_file: the annotation scanner                                       *)
(***************************************************************************)

AnnotationKinds == {"replaceMethod", "wrapMethod", "replaceGlobal"}

KindText(k) ==
    CASE k = "replaceMethod" -> T_replaceMethod
      [] k = "wrapMethod"    -> T_wrapMethod
      [] k = "replaceGlobal" -> T_replaceGlobal

NoMatch == [ok |-> FALSE, ann |-> "", args |-> <<>>]

\* ANNOTATION_RE.match(line):
\*   ^\s*@(replaceMethod|wrapMethod|replaceGlobal)\s*\(([^)]*)\)\s*$
ANNOTATION_RE(line) ==
    LET i0 == SkipWS(line, 1)
        kinds == {k \in AnnotationKinds :
                     /\ i0 <= Len(line)
                     /\ line[i0] = "@"
                     /\ StartsWithAt(line, i0 + 1, KindText(k))}
    IN  IF kinds = {} THEN NoMatch
        ELSE LET k  == CHOOSE x \in kinds : TRUE
                 i1 == SkipWS(line, i0 + 1 + Len(KindText(k)))
             IN  IF i1 > Len(line) \/ line[i1] # "(" THEN NoMatch
                 ELSE LET j == IndexOf(line, <<")">>, i1 + 1)
                      IN  IF j = 0 \/ SkipWS(line, j + 1) <= Len(line)
                          THEN NoMatch
                          ELSE [ok |-> TRUE, ann |-> k,
                                args |-> SubSeq(line, i1 + 1, j - 1)]

\* FUNC_RE at position p:  \bfunc\s+([A-Za-z0-9_]+)\s*\(
FuncMatchAt(line, p) ==
    /\ (p = 1 \/ line[p - 1] \notin IdentChars)
    /\ StartsWithAt(line, p, T_func)
    /\ LET q == SkipWS(line, p + 4)
           r == SkipWhile(line, q, IdentChars)
           t == SkipWS(line, r)
       IN  q > p + 4 /\ r > q /\ t <= Len(line) /\ line[t] = "("

\* FUNC_RE.search(line): the leftmost match, group(1) in .name
FUNC_RE(line) ==
    LET ps == {p \in 1..Len(line) : FuncMatchAt(line, p)}
    IN  IF ps = {} THEN [ok |-> FALSE, name |-> <<>>]
        ELSE LET p == CHOOSE x \in ps : \A y \in ps : x <= y
                 q == SkipWS(line, p + 4)
                 r == SkipWhile(line, q, IdentChars)
             IN  [ok |-> TRUE, name |-> SubSeq(line, q, r - 1)]

\* COMMENT_RE with a bug: the alternative for a line ending with */ is missing
COMMENT_RE_LineStart(line) ==
    LET i == SkipWS(line, 1)
    IN  \/ StartsWithAt(line, i, <<"/", "/">>)
        \/ StartsWithAt(line, i, <<"/", "*">>)

\* COMMENT_RE.search(line):  ^\s*//|^\s*/\*|\*/\s*$
COMMENT_RE(line) ==
    LET i == SkipWS(line, 1)
    IN  \/ StartsWithAt(line, i, <<"/", "/">>)
        \/ StartsWithAt(line, i, <<"/", "*">>)
        \/ \E p \in 1..Len(line) :
               StartsWithAt(line, p, <<"*", "/">>) /\ SkipWS(line, p + 2) > Len(line)

\* ParseClasses with a bug: the arguments are not trimmed
ParseClassesUntrimmed(ann, args) ==
    LET split == IF args # <<>> THEN Split(args, ",") ELSE <<>>
        c1 == IF ann = "replaceGlobal" THEN <<T_global>> ELSE split
    IN  IF c1 = <<>> THEN <<T_unknown>> ELSE c1

\* the class list an annotation queues
ParseClasses(ann, args) ==
    LET split == IF args # <<>>
                 THEN [i \in 1..Len(Split(args, ",")) |-> Strip(Split(args, ",")[i])]
                 ELSE <<>>
        c1 == IF ann = "replaceGlobal" THEN <<T_global>> ELSE split
    IN  IF c1 = <<>> THEN <<T_unknown>> ELSE c1

\* EntriesOf with a bug: only the first listed class gets an entry
EntriesOfFirstClass(item, method, func_sig, path) ==
    <<[annotation |-> item.ann, class |-> item.classes[1], method |-> method,
       func_sig |-> func_sig, file |-> path, line |-> item.line]>>

\* one entry per class of one queued annotation
EntriesOf(item, method, func_sig, path) ==
    [i \in 1..Len(item.classes) |->
        [annotation |-> item.ann, class |-> item.classes[i], method |-> method,
         func_sig |-> func_sig, file |-> path, line |-> item.line]]

RECURSIVE Flush(_, _, _, _)
\* the entries a function declaration emits for the pending buffer, in buffer order
Flush(pend, method, func_sig, path) ==
    IF pend = <<>> THEN <<>>
    ELSE EntriesOf(Head(pend), method, func_sig, path)
             \o Flush(Tail(pend), method, func_sig, path)

\* the signature recorded for a declaration line
FuncSig(line) == Strip(line)

\* the test that sends a line to the function-declaration branch
HasFuncToken(line) == Contains(<<" ">> \o line, <<" ", "f", "u", "n", "c", " ">>)

\* which branch of the loop body a line takes
LineBranch(line) ==
    IF ANNOTATION_RE(line).ok THEN "annotation"
    ELSE IF Strip(line) = <<>> \/ COMMENT_RE(line) THEN "skip"
    ELSE IF HasFuncToken(line) THEN "func"
    ELSE "other"

\* ScanLine with a bug: a line without the token func never clears the buffer
ScanLineKeeping(st, line, idx, path) ==
    LET m == ANNOTATION_RE(line)
        fm == FUNC_RE(line)
    IN  CASE LineBranch(line) = "annotation" ->
               [st EXCEPT !.pending = Append(@, [ann |-> m.ann,
                                                 classes |-> ParseClasses(m.ann, m.args),
                                                 line |-> idx])]
          [] LineBranch(line) = "skip" -> st
          [] LineBranch(line) = "func" ->
               IF fm.ok /\ st.pending # <<>>
               THEN [pending |-> <<>>,
                     entries |-> st.entries \o Flush(st.pending, fm.name, FuncSig(line), path)]
               ELSE [st EXCEPT !.pending = <<>>]
          [] OTHER -> st

\* one iteration of the loop of scan_file on line number idx (1-based)
ScanLine(st, line, idx, path) ==
    LET m == ANNOTATION_RE(line)
        fm == FUNC_RE(line)
    IN  CASE LineBranch(line) = "annotation" ->
               [st EXCEPT !.pending = Append(@, [ann |-> m.ann,
                                                 classes |-> ParseClasses(m.ann, m.args),
                                                 line |-> idx])]
          [] LineBranch(line) = "skip" -> st
          [] LineBranch(line) = "func" ->
               IF fm.ok /\ st.pending # <<>>
               THEN [pending |-> <<>>,
                     entries |-> st.entries \o Flush(st.pending, fm.name, FuncSig(line), path)]
               ELSE [st EXCEPT !.pending = <<>>]
          [] OTHER ->
               IF st.pending # <<>> /\ ~StartsWithAt(LStrip(line), 1, <<"@">>)
               THEN [st EXCEPT !.pending = <<>>]
               ELSE st

RECURSIVE ScanFrom(_, _, _, _)
ScanFrom(st, lines, idx, path) ==
    IF idx > Len(lines) THEN st
    ELSE ScanFrom(ScanLine(st, lines[idx], idx, path), lines, idx + 1, path)

\* scan_file(path) for a file with these lines; an unreadable file gives no entries
scan_file(readable, lines, path) ==
    IF ~readable THEN <<>>
    ELSE ScanFrom([pending |-> <<>>, entries |-> <<>>], lines, 1, path).entries

(***************************************************************************)
(* build_report: discovery, parsing, enrichment, grouping                  *)
(***************************************************************************)

\* 'ModA'
P_ModA == <<"M", "o", "d", "A">>
\* 'ModB'
P_ModB == <<"M", "o", "d", "B">>
\* 'ModC'
P_ModC == <<"M", "o", "d", "C">>
\* 'r6'
P_r6 == <<"r", "6">>
\* 'R6'
P_R6 == <<"R", "6">>
\* 'scripts'
P_scripts == <<"s", "c", "r", "i", "p", "t", "s">>
\* 'Scripts'
P_Scripts == <<"S", "c", "r", "i", "p", "t", "s">>
\* 'SomeMod'
P_SomeMod == <<"S", "o", "m", "e", "M", "o", "d">>
\* 'sub'
P_sub == <<"s", "u", "b">>
\* 'File.reds'
P_File_reds == <<"F", "i", "l", "e", ".", "r", "e", "d", "s">>
\* 'bar1.reds'
P_bar1_reds == <<"b", "a", "r", "1", ".", "r", "e", "d", "s">>
\* 'bar2.reds'
P_bar2_reds == <<"b", "a", "r", "2", ".", "r", "e", "d", "s">>
\* 'baz.reds'
P_baz_reds == <<"b", "a", "z", ".", "r", "e", "d", "s">>
\* 'notes.txt'
P_notes_txt == <<"n", "o", "t", "e", "s", ".", "t", "x", "t">>
\* '.reds'
T_dot_reds == <<".", "r", "e", "d", "s">>
\* '<root>'
T_root == <<"<", "r", "o", "o", "t", ">">>

\* AfterScan with a bug: an unreadable file loses the entries collected so far
AfterScanAborting(es, file, path) ==
    IF file.readable THEN es \o scan_file(file.readable, file.lines, path) ELSE <<>>

\* what the parse loop makes of the entries so far and one more file
AfterScan(es, file, path) == es \o scan_file(file.readable, file.lines, path)

\* rel_parts: the parts of the path relative to the resolved root, or just the
\* file name when the file resolves outside the root
RelParts(path, outside) == IF outside THEN <<path[Len(path)]>> ELSE path

\* ModOf with a bug: r6 and scripts are looked up case-sensitively
ModOfCaseSensitive(parts) ==
    IF InList(parts, P_r6)
    THEN LET i == ListIndex(parts, P_r6)
         IN  IF i + 1 <= Len(parts) /\ parts[i + 1] = P_scripts /\ i + 2 <= Len(parts)
             THEN parts[i + 2]
             ELSE IF i + 1 <= Len(parts) THEN parts[i + 1]
             ELSE T_root
    ELSE IF InList(parts, P_scripts)
    THEN LET j == ListIndex(parts, P_scripts)
         IN  IF j + 1 <= Len(parts) THEN parts[j + 1]
             ELSE IF parts # <<>> THEN parts[1] ELSE T_root
    ELSE IF parts # <<>> THEN parts[1] ELSE T_root

\* the mod of an entry, from the parts of its root-relative path
ModOf(parts) ==
    LET parts_lower == [i \in 1..Len(parts) |-> Lower(parts[i])]
    IN  IF InList(parts_lower, P_r6)
        THEN LET i == ListIndex(parts_lower, P_r6)
             IN  IF /\ i + 1 <= Len(parts_lower)
                    /\ parts_lower[i + 1] = P_scripts
                    /\ i + 2 <= Len(parts)
                 THEN parts[i + 2]
                 ELSE IF i + 1 <= Len(parts) THEN parts[i + 1]
                 ELSE T_root
        ELSE IF InList(parts_lower, P_scripts)
        THEN LET j == ListIndex(parts_lower, P_scripts)
             IN  IF j + 1 <= Len(parts) THEN parts[j + 1]
                 ELSE IF parts # <<>> THEN parts[1] ELSE T_root
        ELSE IF parts # <<>> THEN parts[1] ELSE T_root

\* the enrichment of one entry
EnrichEntry(e, outside) ==
    e @@ [relpath |-> Join(RelParts(e.file, outside), <<"/">>),
          mod |-> ModOf(RelParts(e.file, outside))]

RECURSIVE Dedup(_)
\* the distinct elements of a list, in the order of their first appearance
Dedup(s) ==
    IF s = <<>> THEN <<>>
    ELSE LET r == Dedup(SubSeq(s, 1, Len(s) - 1))
         IN  IF InList(r, s[Len(s)]) THEN r ELSE Append(r, s[Len(s)])

\* the keys of by_cm, in insertion order
ByCmKeys(es) == Dedup([i \in 1..Len(es) |-> <<es[i].class, es[i].method>>])

\* Bucket with a bug: a replaceGlobal entry is filed with the replaceMethod ones
BucketGlobalAsReplace(es, kind, key) ==
    SelectSeq(es, LAMBDA e :
        /\ <<e.class, e.method>> = key
        /\ e.annotation = kind \/ (kind = "replaceMethod" /\ e.annotation = "replaceGlobal"))

\* by_cm[key][...]: the entries of one annotation kind for a (class, method) key
Bucket(es, kind, key) ==
    SelectSeq(es, LAMBDA e : e.annotation = kind /\ <<e.class, e.method>> = key)

FilesOf(occ) == {occ[i].file : i \in 1..Len(occ)}

\* ModsOf with a bug: the mod of every occurrence, as listed
ModsOfListed(occ) == [i \in 1..Len(occ) |-> occ[i].mod]

ModsOf(occ) == SortedSeq({occ[i].mod : i \in 1..Len(occ)})

\* HasConflict with a bug: two occurrences suffice, also in one file
HasConflictByCount(repl) == Len(repl) > 1

\* the test for a ConflictGroup
HasConflict(repl) == repl # <<>> /\ Cardinality(FilesOf(repl)) > 1

\* HasWrapCoexistence with a bug: two occurrences suffice, also in one file
HasWrapCoexistenceByCount(wrap) == Len(wrap) > 1

\* the test for a WrapCoexistenceGroup
HasWrapCoexistence(wrap) == wrap # <<>> /\ Cardinality(FilesOf(wrap)) > 1

\* HasReplaceWrap with a bug: the two-distinct-files rule is applied here too
HasReplaceWrapTwoFiles(repl, wrap) ==
    repl # <<>> /\ wrap # <<>> /\ Cardinality(FilesOf(repl) \cup FilesOf(wrap)) > 1

\* the test for a ReplaceWrapCoexistenceGroup
HasReplaceWrap(repl, wrap) == repl # <<>> /\ wrap # <<>>

RECURSIVE ConflictsFrom(_, _)
ConflictsFrom(keys, es) ==
    IF keys = <<>> THEN <<>>
    ELSE LET repl == Bucket(es, "replaceMethod", Head(keys))
         IN  (IF HasConflict(repl)
              THEN <<[class |-> Head(keys)[1], method |-> Head(keys)[2],
                      count |-> Len(repl), mods |-> ModsOf(repl),
                      occurrences |-> repl]>>
              ELSE <<>>) \o ConflictsFrom(Tail(keys), es)

RECURSIVE WrapCoexistenceFrom(_, _)
WrapCoexistenceFrom(keys, es) ==
    IF keys = <<>> THEN <<>>
    ELSE LET wrap == Bucket(es, "wrapMethod", Head(keys))
         IN  (IF HasWrapCoexistence(wrap)
              THEN <<[class |-> Head(keys)[1], method |-> Head(keys)[2],
                      wrap_count |-> Len(wrap), mods |-> ModsOf(wrap),
                      occurrences |-> wrap]>>
              ELSE <<>>) \o WrapCoexistenceFrom(Tail(keys), es)

RECURSIVE ReplaceWrapFrom(_, _)
ReplaceWrapFrom(keys, es) ==
    IF keys = <<>> THEN <<>>
    ELSE LET repl == Bucket(es, "replaceMethod", Head(keys))
             wrap == Bucket(es, "wrapMethod", Head(keys))
         IN  (IF HasReplaceWrap(repl, wrap)
              THEN <<[class |-> Head(keys)[1], method |-> Head(keys)[2],
                      replace_count |-> Len(repl), wrap_count |-> Len(wrap),
                      mods_replace |-> ModsOf(repl), mods_wrap |-> ModsOf(wrap),
                      occurrences_replace |-> repl, occurrences_wrap |-> wrap]>>
              ELSE <<>>) \o ReplaceWrapFrom(Tail(keys), es)

\* Counter(e['annotation'] for e in entries); a kind never seen counts 0
AnnCounts(es) ==
    [k \in AnnotationKinds |-> Len(SelectSeq(es, LAMBDA e : e.annotation = k))]

\* the orders in which rglob can yield a set of paths
Orders(S) ==
    {s \in [1..Cardinality(S) -> S] : \A i, j \in 1..Cardinality(S) : s[i] = s[j] => i = j}

\* the paths root.rglob('*.reds') yields
Discovered(ok, files) ==
    IF ok THEN {q \in DOMAIN files : EndsWith(q[Len(q)], T_dot_reds)} ELSE {}

(***************************************************************************)
(* Sample lines of .reds files                                             *)
(***************************************************************************)

\* '@replaceMethod(Foo)'
L_ReplaceFoo == <<"@", "r", "e", "p", "l", "a", "c", "e", "M", "e", "t", "h", "o", "d", "(", "F", "o", "o", ")">>
\* '@wrapMethod(Foo)'
L_WrapFoo == <<"@", "w", "r", "a", "p", "M", "e", "t", "h", "o", "d", "(", "F", "o", "o", ")">>
\* '@replaceMethod(Foo, Bar)'
L_ReplaceFooBar == <<"@", "r", "e", "p", "l", "a", "c", "e", "M", "e", "t", "h", "o", "d", "(", "F", "o", "o", ",", " ", "B", "a", "r", ")">>
\* '@replaceGlobal()'
L_ReplaceGlobal == <<"@", "r", "e", "p", "l", "a", "c", "e", "G", "l", "o", "b", "a", "l", "(", ")">>
\* 'func Bar(a: Int32) -> Int32 {'
L_FuncBar == <<"f", "u", "n", "c", " ", "B", "a", "r", "(", "a", ":", " ", "I", "n", "t", "3", "2", ")", " ", "-", ">", " ", "I", "n", "t", "3", "2", " ", "{">>
\* '  func Baz() -> Void {'
L_FuncBazIndented == <<" ", " ", "f", "u", "n", "c", " ", "B", "a", "z", "(", ")", " ", "-", ">", " ", "V", "o", "i", "d", " ", "{">>
\* ''
L_Blank == <<>>
\* '// c'
L_Comment == <<"/", "/", " ", "c">>
\* 'let x = 1;'
L_Statement == <<"l", "e", "t", " ", "x", " ", "=", " ", "1", ";">>
\* '@if(x)'
L_AttrIf == <<"@", "i", "f", "(", "x", ")">>
\* '/* c'
L_BlockOpen == <<"/", "*", " ", "c">>
\* 'c */'
L_BlockClose == <<"c", " ", "*", "/">>
\* '@if(x) // func y'
L_AttrIfNote == <<"@", "i", "f", "(", "x", ")", " ", "/", "/", " ", "f", "u", "n", "c", " ", "y">>
\* 'let func = 1;'
L_FuncWord == <<"l", "e", "t", " ", "f", "u", "n", "c", " ", "=", " ", "1", ";">>
\* '@replaceMethod()'
L_ReplaceEmpty == <<"@", "r", "e", "p", "l", "a", "c", "e", "M", "e", "t", "h", "o", "d", "(", ")">>
\* '@replaceMethod( )'
L_ReplaceBlankArg == <<"@", "r", "e", "p", "l", "a", "c", "e", "M", "e", "t", "h", "o", "d", "(", " ", ")">>
\* '@replaceMethod(Foo,)'
L_ReplaceTrailing == <<"@", "r", "e", "p", "l", "a", "c", "e", "M", "e", "t", "h", "o", "d", "(", "F", "o", "o", ",", ")">>
\* '@replaceMethod(Foo,,Bar)'
L_ReplaceDoubled == <<"@", "r", "e", "p", "l", "a", "c", "e", "M", "e", "t", "h", "o", "d", "(", "F", "o", "o", ",", ",", "B", "a", "r", ")">>
\* '@replaceMethod( Foo , Bar )'
L_ReplaceSpaced == <<"@", "r", "e", "p", "l", "a", "c", "e", "M", "e", "t", "h", "o", "d", "(", " ", "F", "o", "o", " ", ",", " ", "B", "a", "r", " ", ")">>
\* '@replaceGlobal(Foo, Bar)'
L_GlobalFooBar == <<"@", "r", "e", "p", "l", "a", "c", "e", "G", "l", "o", "b", "a", "l", "(", "F", "o", "o", ",", " ", "B", "a", "r", ")">>
\* '@wrapMethod()'
L_WrapEmpty == <<"@", "w", "r", "a", "p", "M", "e", "t", "h", "o", "d", "(", ")">>
\* '\tfunc Bar()'
L_FuncBarTab == <<"\t", "f", "u", "n", "c", " ", "B", "a", "r", "(", ")">>
\* 'public func Bar()'
L_FuncBarPublic == <<"p", "u", "b", "l", "i", "c", " ", "f", "u", "n", "c", " ", "B", "a", "r", "(", ")">>
\* '\tpublic func Bar()'
L_FuncBarTabPublic == <<"\t", "p", "u", "b", "l", "i", "c", " ", "f", "u", "n", "c", " ", "B", "a", "r", "(", ")">>
\* 'func\tBar()'
L_FuncTabBar == <<"f", "u", "n", "c", "\t", "B", "a", "r", "(", ")">>
\* 'func Baz() -> Void'
L_FuncBazNoBrace == <<"f", "u", "n", "c", " ", "B", "a", "z", "(", ")", " ", "-", ">", " ", "V", "o", "i", "d">>
\* 'func Baz() -> void'
L_FuncBazLower == <<"f", "u", "n", "c", " ", "B", "a", "z", "(", ")", " ", "-", ">", " ", "v", "o", "i", "d">>
\* 'func Qux(cb: (Int32) -> Void, b: Int32) -> Int32 {'
L_FuncCallback == <<"f", "u", "n", "c", " ", "Q", "u", "x", "(", "c", "b", ":", " ", "(", "I", "n", "t", "3", "2", ")", " ", "-", ">", " ", "V", "o", "i", "d", ",", " ", "b", ":", " ", "I", "n", "t", "3", "2", ")", " ", "-", ">", " ", "I", "n", "t", "3", "2", " ", "{">>
\* 'func Two(a: Int32, b: Float) -> Bool {'
L_FuncTwo == <<"f", "u", "n", "c", " ", "T", "w", "o", "(", "a", ":", " ", "I", "n", "t", "3", "2", ",", " ", "b", ":", " ", "F", "l", "o", "a", "t", ")", " ", "-", ">", " ", "B", "o", "o", "l", " ", "{">>
\* '@replaceMethod(PlayerPuppet)'
L_ReplacePlayer == <<"@", "r", "e", "p", "l", "a", "c", "e", "M", "e", "t", "h", "o", "d", "(", "P", "l", "a", "y", "e", "r", "P", "u", "p", "p", "e", "t", ")">>
\* '@wrapMethod(PlayerPuppet)'
L_WrapPlayer == <<"@", "w", "r", "a", "p", "M", "e", "t", "h", "o", "d", "(", "P", "l", "a", "y", "e", "r", "P", "u", "p", "p", "e", "t", ")">>
\* 'Foo'
sFoo == <<"F", "o", "o">>
\* 'Bar'
sBar == <<"B", "a", "r">>
\* 'Baz'
sBaz == <<"B", "a", "z">>

\* '}'
L_Close == <<"}">>

(***************************************************************************)
(* Sample files and trees                                                  *)
(***************************************************************************)

\* one replaceMethod of Foo.Bar
BAR_FILE_1 == <<L_ReplaceFoo, L_FuncBar, L_Close>>

\* a replaceMethod and a wrapMethod of Foo.Bar
BAR_FILE_2 == <<L_ReplaceFoo, L_FuncBar, L_Close, L_WrapFoo, L_FuncBar, L_Close>>

\* one replaceMethod of PlayerPuppet.Bar
PLAYER_FILE_1 == <<L_ReplacePlayer, L_FuncBar, L_Close>>

\* a replaceMethod and a wrapMethod of PlayerPuppet.Bar
PLAYER_FILE_2 == <<L_ReplacePlayer, L_FuncBar, L_Close, L_WrapPlayer, L_FuncBar, L_Close>>

\* one replaceMethod of Foo.Baz
BAZ_FILE_1 == <<L_ReplaceFoo, L_FuncBazIndented, L_Close>>

\* Foo.Bar replaced twice in the same file
DUP_FILE == <<L_ReplaceFoo, L_FuncBar, L_Close, L_ReplaceFoo, L_FuncBar, L_Close>>

\* Foo.Bar wrapped twice in the same file
WRAP2_FILE == <<L_WrapFoo, L_FuncBar, L_Close, L_WrapFoo, L_FuncBar, L_Close>>

\* a replaceGlobal of Bar
GLOBAL_FILE == <<L_ReplaceGlobal, L_FuncBar, L_Close>>

Contents == {BAR_FILE_1, BAR_FILE_2, BAZ_FILE_1, DUP_FILE, WRAP2_FILE, GLOBAL_FILE}

\* a readable file with each content, and an unreadable one
FileChoices ==
    {[readable |-> TRUE, lines |-> c, outside |-> FALSE] : c \in Contents}
        \cup {[readable |-> FALSE, lines |-> <<>>, outside |-> FALSE]}

\* the paths, relative to the scan root, a tree is made of
TreePaths == {<<P_ModA, P_bar1_reds>>, <<P_ModA, P_bar2_reds>>, <<P_ModB, P_bar1_reds>>,
              <<P_r6, P_scripts, P_ModC, P_baz_reds>>, <<P_ModA, P_notes_txt>>}

\* most files in a tree
MaxFiles == 2

\* the directory names of the trees of the path specification
DirNames == {P_r6, P_R6, P_scripts, P_Scripts, P_SomeMod, P_sub}

\* deepest directory nesting of the path specification
MaxDepth == 4

\* the lines a scanned file is made of
LineVocab == {L_ReplaceFoo, L_WrapFoo, L_ReplaceFooBar, L_ReplaceGlobal,
              L_FuncBar, L_FuncBazIndented, L_Blank, L_Comment, L_Statement, L_AttrIf,
              L_BlockOpen, L_BlockClose, L_AttrIfNote}

\* longest file of the scanner specification, in lines
MaxLines == 3

\* the lines put between an annotation and a declaration in the longer files
BetweenVocab == {L_Blank, L_Comment, L_BlockOpen, L_BlockClose, L_AttrIf,
                 L_AttrIfNote, L_Statement, L_FuncWord}

\* most lines between the annotation and the declaration of a longer file
MaxBetween == 2

\* the longer files: one annotation, some lines, one declaration
BetweenFiles ==
    {<<a>> \o mid \o <<d>> :
        a \in {L_ReplaceFooBar, L_WrapFoo},
        mid \in UNION {[1..n -> BetweenVocab] : n \in 1..MaxBetween},
        d \in {L_FuncBar}}

\* annotation lines with the argument lists scan_file has to deal with
AnnotationVocab == {L_ReplaceFooBar, L_ReplaceGlobal, L_ReplaceEmpty, L_ReplaceBlankArg,
                    L_ReplaceTrailing, L_ReplaceDoubled, L_ReplaceSpaced, L_GlobalFooBar,
                    L_WrapEmpty}

\* declaration lines: nothing, spaces, a tab or modifier keywords before the
\* token func, and a tab after it
DeclVocab == {L_FuncBar, L_FuncBazIndented, L_FuncBarTab, L_FuncBarPublic,
              L_FuncBarTabPublic, L_FuncTabBar}

\* the two-line files: one annotation and one declaration
AnnotatedFiles == {<<a, d>> : a \in AnnotationVocab, d \in DeclVocab}

\* str(path) of the file scan_file is called on in the scanner specification
ScanPath == <<"bar1.reds">>

(***************************************************************************)
(* Python values.  The arguments and the configuration of the impact       *)
(* scorer are dynamically typed (a config comes from a JSON file), so a    *)
(* value carries its type: t is the type, v the payload.  A dict is a      *)
(* function from its keys to values, a list a sequence of values, a str a  *)
(* sequence of characters.                                                 *)
(***************************************************************************)

PyNone == [t |-> "none", v |-> 0]

PyInt(n) == [t |-> "int", v |-> n]

PyStr(s) == [t |-> "str", v |-> s]

PyList(l) == [t |-> "list", v |-> l]

PyDict(d) == [t |-> "dict", v |-> d]

EmptyDict == PyDict(<<>>)

\* the truth value Python gives x in "x or y" and "if x"
Truthy(x) ==
    CASE x.t = "none" -> FALSE
      [] x.t = "int" -> x.v # 0
      [] x.t = "str" -> Len(x.v) > 0
      [] x.t = "list" -> Len(x.v) > 0
      [] x.t = "dict" -> DOMAIN x.v # {}

\* x or {}
OrEmptyDict(x) == IF Truthy(x) THEN x ELSE EmptyDict

\* d.get(k, dflt) for a dict d
Get(d, k, dflt) == IF k \in DOMAIN d.v THEN d.v[k] ELSE dflt

\* d[k] = x for a dict d
Put(d, k, x) == PyDict([j \in (DOMAIN d.v) \cup {k} |-> IF j = k THEN x ELSE d.v[j]])

\* d.update(items) for a dict d and a function items
Update(d, items) ==
    PyDict([j \in (DOMAIN d.v) \cup (DOMAIN items) |->
               IF j \in DOMAIN items THEN items[j] ELSE d.v[j]])

\* the text int() accepts: an optional sign and decimal digits, after strip()
IsIntText(s) ==
    LET body == IF s # <<>> /\ s[1] \in {"+", "-"} THEN Tail(s) ELSE s
    IN  body # <<>> /\ \A i \in 1..Len(body) : body[i] \in Digits

RECURSIVE DecimalValue(_)
DecimalValue(s) ==
    IF s = <<>> THEN 0
    ELSE 10 * DecimalValue(SubSeq(s, 1, Len(s) - 1)) + (CharCode(s[Len(s)]) - CharCode("0"))

\* whether int(x) returns rather than raises
IntOk(x) == x.t = "int" \/ (x.t = "str" /\ IsIntText(Strip(x.v)))

\* int(x)
IntOf(x) ==
    IF x.t = "int" THEN x.v
    ELSE LET s == Strip(x.v)
         IN  IF s[1] = "-" THEN 0 - DecimalValue(Tail(s))
             ELSE IF s[1] = "+" THEN DecimalValue(Tail(s))
             ELSE DecimalValue(s)

(***************************************************************************)
(* common_impact: the default profile and the symptom keywords             *)
(***************************************************************************)

K_vehicle == <<"v", "e", "h", "i", "c", "l", "e">>

K_quest == <<"q", "u", "e", "s", "t">>

K_player == <<"p", "l", "a", "y", "e", "r">>

K_inventory == <<"i", "n", "v", "e", "n", "t", "o", "r", "y">>

K_damage == <<"d", "a", "m", "a", "g", "e">>

K_ui == <<"u", "i">>

K_hud == <<"h", "u", "d">>

K_ink == <<"i", "n", "k">>

K_update == <<"u", "p", "d", "a", "t", "e">>

K_tick == <<"t", "i", "c", "k">>

K_initialize == <<"i", "n", "i", "t", "i", "a", "l", "i", "z", "e">>

K_init == <<"i", "n", "i", "t">>

K_onattach == <<"o", "n", "a", "t", "t", "a", "c", "h">>

K_onunattach == <<"o", "n", "u", "n", "a", "t", "t", "a", "c", "h">>

K_refresh == <<"r", "e", "f", "r", "e", "s", "h">>

K_calculate == <<"c", "a", "l", "c", "u", "l", "a", "t", "e">>

K_resolve == <<"r", "e", "s", "o", "l", "v", "e">>

K_puppet == <<"p", "u", "p", "p", "e", "t">>

K_equipment == <<"e", "q", "u", "i", "p", "m", "e", "n", "t">>

K_journal == <<"j", "o", "u", "r", "n", "a", "l">>

K_fact == <<"f", "a", "c", "t">>

K_hit == <<"h", "i", "t">>

K_uiHud == <<"u", "i", "H", "u", "d">>

K_other == <<"o", "t", "h", "e", "r">>

K_void == <<"v", "o", "i", "d">>

T_impact_symptom == <<"i", "m", "p", "a", "c", "t", ".", "s", "y", "m", "p", "t", "o", "m", ".">>

T_wrap_note == <<" ", "i", "m", "p", "a", "c", "t", ".", "e", "x", "t", "r", "a", ".", "w", "r", "a", "p", "C", "o", "e", "x", "i", "s", "t">>

T_arrow == <<"-", ">">>

sPlayerPuppet == <<"P", "l", "a", "y", "e", "r", "P", "u", "p", "p", "e", "t">>

sVehicleUIHud == <<"V", "e", "h", "i", "c", "l", "e", "U", "I", "H", "u", "d">>

sInitialize == <<"I", "n", "i", "t", "i", "a", "l", "i", "z", "e">>

\* a keyword table {keyword: points} from a set of <<keyword, points>> pairs
KeywordDict(pairs) ==
    PyDict([k \in {p[1] : p \in pairs} |-> PyInt((CHOOSE p \in pairs : p[1] = k)[2])])

DefaultClassKeywords ==
    KeywordDict({<<K_vehicle, 15>>, <<K_quest, 12>>, <<K_player, 12>>, <<K_inventory, 10>>,
                 <<K_damage, 10>>, <<K_ui, 8>>, <<K_hud, 8>>, <<K_ink, 6>>})

DefaultMethodKeywords ==
    KeywordDict({<<K_update, 12>>, <<K_tick, 12>>, <<K_initialize, 10>>, <<K_init, 10>>,
                 <<K_onattach, 8>>, <<K_onunattach, 6>>, <<K_refresh, 8>>,
                 <<K_calculate, 8>>, <<K_resolve, 8>>})

\* weights of the embedded profile, with the given wrap_coexist_bonus entry
\* (PyNone: the entry is absent)
WeightsWith(bonus) ==
    LET base == [per_mod |-> PyInt(10),
                 class_keywords |-> DefaultClassKeywords,
                 method_keywords |-> DefaultMethodKeywords,
                 signature |-> PyDict([per_arg |-> PyInt(3), has_return |-> PyInt(6)])]
    IN  IF bonus = PyNone THEN PyDict(base)
        ELSE Put(PyDict(base), "wrap_coexist_bonus", bonus)

Thresholds(c, h, m) == PyDict([critical |-> PyInt(c), high |-> PyInt(h), medium |-> PyInt(m)])

\* the embedded profile _IMPACT_DEFAULT_CONFIG as the module defines it
DefaultProfile ==
    PyDict([thresholds |-> Thresholds(95, 70, 45), weights |-> WeightsWith(PyInt(12))])

\* _SYMPTOM_KEYWORDS, in its order
SYMPTOM_KEYWORDS ==
    <<[code |-> K_uiHud, kws |-> {K_ui, K_hud, K_ink}],
      [code |-> K_player, kws |-> {K_player, K_puppet, K_equipment}],
      [code |-> K_vehicle, kws |-> {K_vehicle}],
      [code |-> K_quest, kws |-> {K_quest, K_journal, K_fact}],
      [code |-> K_inventory, kws |-> {K_inventory}],
      [code |-> K_damage, kws |-> {K_damage, K_hit}]>>

\* whether (x or '').lower() returns rather than raises
LowerOk(x) == ~Truthy(x) \/ x.t = "str"

\* (x or '').lower()
LowerOf(x) == IF Truthy(x) THEN Lower(x.v) ELSE <<>>

\* the last group with a keyword in the class name wins
classify_last_group(cls_name, meth) ==
    LET s == LowerOf(cls_name)
        hits == {i \in 1..Len(SYMPTOM_KEYWORDS) :
                    \E k \in SYMPTOM_KEYWORDS[i].kws : Contains(s, k)}
    IN  IF hits = {} THEN K_other
        ELSE SYMPTOM_KEYWORDS[CHOOSE i \in hits : \A j \in hits : i >= j].code

\* classify_conflict_symptom: the code of the first group one of whose
\* keywords is in the lowercased class name
classify_conflict_symptom(cls_name, meth) ==
    LET s == LowerOf(cls_name)
        hits == {i \in 1..Len(SYMPTOM_KEYWORDS) :
                    \E k \in SYMPTOM_KEYWORDS[i].kws : Contains(s, k)}
    IN  IF hits = {} THEN K_other
        ELSE SYMPTOM_KEYWORDS[CHOOSE i \in hits : \A j \in hits : i <= j].code

(***************************************************************************)
(* compute_impact_unified.  Every step that can raise has a ...Ok          *)
(* predicate: the function returns EmptyImpact as soon as one that is      *)
(* evaluated fails, the blanket except of the source.                      *)
(***************************************************************************)

EmptyImpact == [severity |-> "", message |-> <<>>]

\* values set() can hold
Hashable(x) == x.t \in {"none", "int", "str"}

\* whether len(set(mods or [])) returns rather than raises
ModCountOk(mods) ==
    \/ ~Truthy(mods)
    \/ mods.t \in {"str", "dict"}
    \/ (mods.t = "list" /\ \A i \in 1..Len(mods.v) : Hashable(mods.v[i]))

\* len(set(mods or []))
ModCount(mods) ==
    IF ~Truthy(mods) THEN 0
    ELSE IF mods.t = "dict" THEN Cardinality(DOMAIN mods.v)
    ELSE Cardinality({mods.v[i] : i \in 1..Len(mods.v)})

\* whether the loop over a keyword table returns rather than raises: the
\* table is a dict and int(w) succeeds for every keyword found in the text
KeywordsOk(kws, text) ==
    /\ kws.t = "dict"
    /\ \A k \in DOMAIN kws.v : Contains(text, k) => IntOk(kws.v[k])

\* only one of the keywords found in the text counts
KeywordSumFirstOnly(kws, keys, text) ==
    LET found == {k \in keys : Contains(text, k)}
    IN  IF found = {} THEN 0 ELSE IntOf(kws.v[CHOOSE k \in found : TRUE])

RECURSIVE KeywordSum(_, _, _)
KeywordSum(kws, keys, text) ==
    IF keys = {} THEN 0
    ELSE LET k == CHOOSE x \in keys : TRUE
         IN  (IF Contains(text, k) THEN IntOf(kws.v[k]) ELSE 0)
                 + KeywordSum(kws, keys \ {k}, text)

\* the points of every keyword of the table that is in the text
KeywordScore(kws, text) == KeywordSum(kws, DOMAIN kws.v, text)

\* whether entries[0].get('func_sig') returns rather than raises
FirstSigOk(entries) ==
    ~Truthy(entries) \/ (entries.t = "list" /\ entries.v[1].t = "dict")

\* func_sig: entries[0].get('func_sig') or '', '' without entries
FirstSig(entries) ==
    IF ~Truthy(entries) THEN PyStr(<<>>)
    ELSE LET s == Get(entries.v[1], "func_sig", PyNone)
         IN  IF Truthy(s) THEN s ELSE PyStr(<<>>)

\* args_count of a signature text: re.search(r'\((.*?)\)') takes the first
\* "(" and the first ")" after it; the non-blank pieces between commas count
ArgsCountOfText(sig) ==
    LET open == IndexOf(sig, <<"(">>, 1)
        close == IF open = 0 THEN 0 ELSE IndexOf(sig, <<")">>, open + 1)
    IN  IF open = 0 \/ close = 0 THEN 0
        ELSE LET inner == Strip(SubSeq(sig, open + 1, close - 1))
                 parts == Split(inner, ",")
             IN  IF inner = <<>> THEN 0
                 ELSE Cardinality({i \in 1..Len(parts) : Strip(parts[i]) # <<>>})

\* has_return of a signature text: what follows the first "->", stripped, is
\* not empty and is not "void" in any letter case
HasReturnOfText(sig) ==
    LET p == IndexOf(sig, T_arrow, 1)
    IN  /\ p # 0
        /\ LET ret_part == Strip(SubSeq(sig, p + Len(T_arrow), Len(sig)))
           IN  ret_part # <<>> /\ Lower(ret_part) # K_void

\* a func_sig that is not a str makes re.search raise, which the inner except
\* swallows: no arguments, no return
ArgsCount(func_sig) == IF func_sig.t = "str" THEN ArgsCountOfText(func_sig.v) ELSE 0

HasReturn(func_sig) == func_sig.t = "str" /\ HasReturnOfText(func_sig.v)

WrapBonusOk(weights, wrap_coexist) ==
    wrap_coexist => IntOk(Get(weights, "wrap_coexist_bonus", PyInt(0)))

\* the bonus is added to the baseline instead of to the overall score
WrapBonusOnBaseline(weights, wrap_coexist) ==
    IF ~wrap_coexist THEN IntOf(Get(weights, "wrap_coexist_bonus", PyInt(0))) ELSE 0

\* if wrap_coexist: score += int(weights.get('wrap_coexist_bonus', 0))
WrapBonus(weights, wrap_coexist) ==
    IF wrap_coexist THEN IntOf(Get(weights, "wrap_coexist_bonus", PyInt(0))) ELSE 0

\* whether the score is computed without raising
ScoreOk(cls, meth, mods, entries, weights, wrap_coexist) ==
    /\ weights.t = "dict"
    /\ ModCountOk(mods)
    /\ IntOk(Get(weights, "per_mod", PyInt(0)))
    /\ LowerOk(cls) /\ LowerOk(meth)
    /\ KeywordsOk(OrEmptyDict(Get(weights, "class_keywords", PyNone)), LowerOf(cls))
    /\ KeywordsOk(OrEmptyDict(Get(weights, "method_keywords", PyNone)), LowerOf(meth))
    /\ LET sig_w == OrEmptyDict(Get(weights, "signature", PyNone))
       IN  /\ sig_w.t = "dict"
           /\ IntOk(Get(sig_w, "per_arg", PyInt(0)))
           /\ IntOk(Get(sig_w, "has_return", PyInt(0)))
    /\ FirstSigOk(entries)
    /\ WrapBonusOk(weights, wrap_coexist)

\* the score compared with the thresholds
Score(cls, meth, mods, entries, weights, wrap_coexist) ==
    LET sig_w == OrEmptyDict(Get(weights, "signature", PyNone))
        per_arg == IntOf(Get(sig_w, "per_arg", PyInt(0)))
        has_ret_w == IntOf(Get(sig_w, "has_return", PyInt(0)))
        func_sig == FirstSig(entries)
    IN  IntOf(Get(weights, "per_mod", PyInt(0))) * ModCount(mods)
            + KeywordScore(OrEmptyDict(Get(weights, "class_keywords", PyNone)), LowerOf(cls))
            + KeywordScore(OrEmptyDict(Get(weights, "method_keywords", PyNone)), LowerOf(meth))
            + per_arg * ArgsCount(func_sig)
            + (IF HasReturn(func_sig) THEN has_ret_w ELSE 0)
            + WrapBonus(weights, wrap_coexist)

\* a threshold that is missing is an error
SeverityOkStrict(score, thresholds) ==
    /\ thresholds.t = "dict"
    /\ {"critical", "high", "medium"} \subseteq DOMAIN thresholds.v
    /\ \A k \in {"critical", "high", "medium"} : IntOk(thresholds.v[k])

\* whether the threshold chain returns rather than raises: a threshold is
\* converted only when the comparisons before it failed
SeverityOk(score, thresholds) ==
    /\ thresholds.t = "dict"
    /\ LET c == Get(thresholds, "critical", PyInt(80))
           h == Get(thresholds, "high", PyInt(60))
           m == Get(thresholds, "medium", PyInt(40))
       IN  /\ IntOk(c)
           /\ score < IntOf(c) => IntOk(h)
           /\ (score < IntOf(c) /\ score < IntOf(h)) => IntOk(m)

\* the thresholds taken as exclusive lower bounds
SeverityExclusive(score, thresholds) ==
    IF score > IntOf(Get(thresholds, "critical", PyInt(80))) THEN "Critical"
    ELSE IF score > IntOf(Get(thresholds, "high", PyInt(60))) THEN "High"
    ELSE IF score > IntOf(Get(thresholds, "medium", PyInt(40))) THEN "Medium"
    ELSE "Low"

\* the if / elif chain over critical, high, medium
Severity(score, thresholds) ==
    IF score >= IntOf(Get(thresholds, "critical", PyInt(80))) THEN "Critical"
    ELSE IF score >= IntOf(Get(thresholds, "high", PyInt(60))) THEN "High"
    ELSE IF score >= IntOf(Get(thresholds, "medium", PyInt(40))) THEN "Medium"
    ELSE "Low"

\* the i18n key tokens of the message
Message(cls, meth, wrap_coexist) ==
    T_impact_symptom \o classify_conflict_symptom(cls, meth)
        \o (IF wrap_coexist THEN T_wrap_note ELSE <<>>)

\* the function without its outer except clause: an exception escapes
compute_impact_unhandled(cls, meth, mods, entries, config, wrap_coexist, dflt) ==
    LET cfg == IF Truthy(config) THEN config ELSE dflt
        escaped == [exception |-> "raised"]
    IN  IF cfg.t # "dict" THEN escaped
        ELSE LET weights == OrEmptyDict(Get(cfg, "weights", PyNone))
                 thresholds == OrEmptyDict(Get(cfg, "thresholds", PyNone))
             IN  IF ~ScoreOk(cls, meth, mods, entries, weights, wrap_coexist)
                 THEN escaped
                 ELSE LET score == Score(cls, meth, mods, entries, weights, wrap_coexist)
                      IN  IF ~SeverityOk(score, thresholds) THEN escaped
                          ELSE [severity |-> Severity(score, thresholds),
                                message |-> Message(cls, meth, wrap_coexist)]

\* compute_impact_unified; dflt is what get_default_impact_config() returns
\* in the state of the call
compute_impact_unified(cls, meth, mods, entries, config, wrap_coexist, dflt) ==
    LET cfg == IF Truthy(config) THEN config ELSE dflt
    IN  IF cfg.t # "dict" THEN EmptyImpact
        ELSE LET weights == OrEmptyDict(Get(cfg, "weights", PyNone))
                 thresholds == OrEmptyDict(Get(cfg, "thresholds", PyNone))
             IN  IF ~ScoreOk(cls, meth, mods, entries, weights, wrap_coexist)
                 THEN EmptyImpact
                 ELSE LET score == Score(cls, meth, mods, entries, weights, wrap_coexist)
                      IN  IF ~SeverityOk(score, thresholds) THEN EmptyImpact
                          ELSE [severity |-> Severity(score, thresholds),
                                message |-> Message(cls, meth, wrap_coexist)]

(***************************************************************************)
(* The default profile: _load_external_default, get_default_impact_config  *)
(* and the override the GUI applies when it loads its settings             *)
(***************************************************************************)

\* isinstance(data, dict) and 'thresholds' in data and 'weights' in data
ValidProfile(data) ==
    data.t = "dict" /\ "thresholds" \in DOMAIN data.v /\ "weights" \in DOMAIN data.v

\* _load_external_default: what it returns and what it leaves in the cache.
\* files are the contents of the candidate files in search order, PyNone for
\* one that is missing or is not JSON
load_external_default(cache, files) ==
    LET valid == {i \in 1..Len(files) : ValidProfile(files[i])}
    IN  IF cache.t # "none" THEN [ret |-> cache, cache |-> cache]
        ELSE IF valid = {} THEN [ret |-> PyNone, cache |-> PyNone]
        ELSE LET data == files[CHOOSE i \in valid : \A j \in valid : i <= j]
             IN  [ret |-> data, cache |-> data]

\* whether get_default_impact_config returns the external profile object
\* rather than the embedded one
DefaultIsExternal(cache, files) == Truthy(load_external_default(cache, files).ret)

\* get_default_impact_config: _load_external_default() or _IMPACT_DEFAULT_CONFIG
get_default_impact_config(cache, files, embedded) ==
    IF DefaultIsExternal(cache, files)
    THEN load_external_default(cache, files).ret
    ELSE embedded

\* {k: int(v) for k, v in src.items() if isinstance(v, (int, float))}
IntItems(src) == [k \in {j \in DOMAIN src.v : src.v[j].t = "int"} |-> src.v[k]]

\* whether self._impact_cfg['weights'] is there to be written into
HasWeights(cfg) == "weights" \in DOMAIN cfg.v /\ cfg.v["weights"].t = "dict"

\* self._impact_cfg['thresholds'].update(...), st.ok FALSE once a step raised
OverrideThresholds(st, impact_in) ==
    LET th == Get(impact_in, "thresholds", PyNone)
    IN  IF th.t # "dict" THEN st
        ELSE IF "thresholds" \notin DOMAIN st.cfg.v \/ st.cfg.v["thresholds"].t # "dict"
        THEN [cfg |-> st.cfg, ok |-> FALSE]
        ELSE [cfg |-> Put(st.cfg, "thresholds",
                          Update(st.cfg.v["thresholds"], IntItems(th))),
              ok |-> TRUE]

\* self._impact_cfg['weights'][key] = int(w[key])
OverrideWeight(st, w, key) ==
    IF ~st.ok \/ key \notin DOMAIN w.v THEN st
    ELSE IF w.v[key].t # "int" THEN st
    ELSE IF ~HasWeights(st.cfg) THEN [cfg |-> st.cfg, ok |-> FALSE]
    ELSE [cfg |-> Put(st.cfg, "weights", Put(st.cfg.v["weights"], key, w.v[key])),
          ok |-> TRUE]

\* self._impact_cfg['weights'].setdefault(key, {}).update(...)
OverrideTable(st, w, key) ==
    IF ~st.ok \/ Get(w, key, PyNone).t # "dict" THEN st
    ELSE IF ~HasWeights(st.cfg) THEN [cfg |-> st.cfg, ok |-> FALSE]
    ELSE LET cur == Get(st.cfg.v["weights"], key, EmptyDict)
         IN  IF cur.t # "dict"
             THEN [cfg |-> st.cfg, ok |-> FALSE]
             ELSE [cfg |-> Put(st.cfg, "weights",
                               Put(st.cfg.v["weights"], key,
                                   Update(cur, IntItems(w.v[key])))),
                   ok |-> TRUE]

\* the weights part of the override, in the order of the source
OverrideWeights(st, impact_in) ==
    LET w == Get(impact_in, "weights", PyNone)
    IN  IF ~st.ok \/ w.t # "dict" THEN st
        ELSE OverrideTable(
                 OverrideTable(
                     OverrideTable(
                         OverrideWeight(OverrideWeight(st, w, "per_mod"),
                                        w, "wrap_coexist_bonus"),
                         w, "signature"),
                     w, "class_keywords"),
                 w, "method_keywords")

\* the impact part of _load_settings_silent applied to the dict that
\* self._impact_cfg refers to; data is the parsed settings file, PyNone when
\* there is none.  A step that raises ends the override and keeps what the
\* steps before it wrote.
LoadSettingsImpact(cfg, data) ==
    IF data.t # "dict" THEN cfg
    ELSE LET first == Get(data, "impact", PyNone)
             impact_in == IF Truthy(first) THEN first
                          ELSE Get(data, "impact_config", PyNone)
         IN  IF impact_in.t # "dict" THEN cfg
             ELSE OverrideWeights(OverrideThresholds([cfg |-> cfg, ok |-> TRUE],
                                                     impact_in),
                                  impact_in).cfg

(***************************************************************************)
(* Sample arguments, profiles and settings of the impact scorer            *)
(***************************************************************************)

\* number of compute_impact_unified evaluations a behaviour records
MaxCalls == 2

ClassChoices == {PyStr(sFoo), PyStr(sPlayerPuppet), PyStr(sVehicleUIHud)}

MethodChoices == {PyStr(sBar), PyStr(sInitialize)}

ModsChoices ==
    {PyList(<<PyStr(P_ModA), PyStr(P_ModB)>>),
     PyList(<<PyStr(P_ModA), PyStr(P_ModA)>>),
     PyList(<<PyStr(P_ModA), PyStr(P_ModB), PyStr(P_ModC)>>)}

\* occurrences as scan_file records them: func_sig is FuncSig of the line
Occurrence(line) == PyDict([func_sig |-> PyStr(FuncSig(line))])

EntriesChoices ==
    {PyList(<<>>),
     PyList(<<Occurrence(L_FuncBar), Occurrence(L_FuncBazIndented)>>),
     PyList(<<Occurrence(L_FuncBazIndented)>>)}

\* wrap_coexist_bonus entries: absent, zero, the default, negative, not a number
BonusChoices == {PyNone, PyInt(0), PyInt(12), PyInt(0 - 12), PyStr(<<"x">>)}

\* explicit configs, thresholds in and out of order, and config omitted
ConfigChoices ==
    {PyDict([thresholds |-> Thresholds(c, h, m), weights |-> WeightsWith(b)]) :
        c \in {95, 40}, h \in {70, 30}, m \in {45, 25}, b \in BonusChoices}
    \cup {PyNone}

\* an external impact_config.json
ExternalProfile ==
    PyDict([thresholds |-> Thresholds(80, 50, 20), weights |-> WeightsWith(PyInt(5))])

\* a JSON file without the weights key
IncompleteProfile == PyDict([thresholds |-> Thresholds(80, 50, 20)])

\* the candidate files: none exists, or the first is incomplete and the
\* second is a profile
CandidateChoices == {<<PyNone>>, <<IncompleteProfile, ExternalProfile>>}

\* GUI settings files: none, a thresholds override, a weights override
SettingsChoices ==
    {PyNone,
     PyDict([impact |-> PyDict([thresholds |-> PyDict([medium |-> PyInt(10)])])]),
     PyDict([impact_config |->
                PyDict([weights |->
                    PyDict([per_mod |-> PyInt(20),
                            signature |-> PyDict([per_arg |-> PyInt(5)]),
                            class_keywords |-> KeywordDict({<<K_player, 30>>})])])])}

NoArgs == [cls |-> PyNone, meth |-> PyNone, mods |-> PyNone, entries |-> PyNone,
           config |-> PyNone]

(***************************************************************************)
(* The report after build_report: impact augmentation, output options,     *)
(* preview filtering and rendering.  The entries are objects the groups    *)
(* share: a group lists its occurrences by reference, as indices into the  *)
(* list of entries (the heap), and every operation that is handed a group  *)
(* or the report returns the heap it leaves behind.                        *)
(***************************************************************************)

RECURSIVE AscSeq(_)
\* the numbers of S in ascending order
AscSeq(S) ==
    IF S = {} THEN <<>>
    ELSE LET m == CHOOSE x \in S : \A y \in S : x <= y
         IN  <<m>> \o AscSeq(S \ {m})

\* the entries of one kind and one (class, method) key, by reference, in
\* the order of the list of entries
Refs(es, kind, key) ==
    AscSeq({i \in 1..Len(es) :
               es[i].annotation = kind /\ <<es[i].class, es[i].method>> = key})

\* a group before _apply has touched it
NoImpact == [attached |-> FALSE]

\* the groups of a report as build_report leaves them: the lists under
\* occurrences, occurrences_replace and occurrences_wrap hold the entries
\* themselves, not copies
GroupObjects(rep, es) ==
    [conflicts |->
        [i \in 1..Len(rep.conflicts) |->
            LET g == rep.conflicts[i]
            IN  [class |-> g.class, method |-> g.method, count |-> g.count,
                 mods |-> g.mods, impact |-> NoImpact,
                 occurrences |-> Refs(es, "replaceMethod", <<g.class, g.method>>)]],
     wrap_coexistence |->
        [i \in 1..Len(rep.wrap_coexistence) |->
            LET g == rep.wrap_coexistence[i]
            IN  [class |-> g.class, method |-> g.method, wrap_count |-> g.wrap_count,
                 mods |-> g.mods, impact |-> NoImpact,
                 occurrences |-> Refs(es, "wrapMethod", <<g.class, g.method>>)]],
     replace_wrap_coexistence |->
        [i \in 1..Len(rep.replace_wrap_coexistence) |->
            LET g == rep.replace_wrap_coexistence[i]
            IN  [class |-> g.class, method |-> g.method,
                 replace_count |-> g.replace_count, wrap_count |-> g.wrap_count,
                 mods_replace |-> g.mods_replace, mods_wrap |-> g.mods_wrap,
                 impact |-> NoImpact,
                 occurrences_replace |-> Refs(es, "replaceMethod", <<g.class, g.method>>),
                 occurrences_wrap |-> Refs(es, "wrapMethod", <<g.class, g.method>>)]]]

NoGroups == [conflicts |-> <<>>, wrap_coexistence |-> <<>>,
             replace_wrap_coexistence |-> <<>>]

\* a list of mod ids as the scorer receives it
PyMods(mods) == PyList([i \in 1..Len(mods) |-> PyStr(mods[i])])

\* a list of occurrences as the scorer receives it: it reads func_sig only
PyOccurrences(heap, refs) ==
    PyList([i \in 1..Len(refs) |-> PyDict([func_sig |-> PyStr(heap[refs[i]].func_sig)])])

\* group.get('mods') or []
GroupMods(group) == IF "mods" \in DOMAIN group THEN group.mods ELSE <<>>

\* group.get('occurrences') or group.get('occurrences_replace') or []
GroupOccurrences(group) ==
    IF "occurrences" \in DOMAIN group /\ group.occurrences # <<>> THEN group.occurrences
    ELSE IF "occurrences_replace" \in DOMAIN group THEN group.occurrences_replace
    ELSE <<>>

\* _loc_impact(text, tr): the tokens of the message handed to the translator
Localized(msg) == [tr |-> msg]

\* the six impact fields _apply sets on a group, from the overall and the
\* baseline result
ImpactRecord(impact, base) ==
    [attached |-> TRUE,
     impact_severity |-> impact.severity,
     impact_message |-> impact.message,
     impact_severity_baseline |-> base.severity,
     impact_message_baseline |-> base.message,
     impact_message_localized |-> Localized(impact.message),
     impact_message_baseline_localized |-> Localized(base.message)]

\* the compute_impact_unified call of _apply for a group
GroupImpact(heap, group, wrap, cfg) ==
    compute_impact_unified(PyStr(group.class), PyStr(group.method),
                           PyMods(GroupMods(group)),
                           PyOccurrences(heap, GroupOccurrences(group)),
                           cfg, wrap, cfg)

\* the impact fields of a group: the overall result with the wrap flag of
\* the list, the baseline without
ImpactFields(heap, group, wrap, cfg) ==
    ImpactRecord(GroupImpact(heap, group, wrap, cfg), GroupImpact(heap, group, FALSE, cfg))

\* _apply with a bug: the impact severity is written on the occurrences of
\* the group as well
ApplyToOccurrences(heap, group, wrap, cfg) ==
    LET f == ImpactFields(heap, group, wrap, cfg)
        refs == GroupOccurrences(group)
    IN  [heap |-> [i \in 1..Len(heap) |->
                      IF \E j \in 1..Len(refs) : refs[j] = i
                      THEN heap[i] @@ [impact_severity |-> f.impact_severity]
                      ELSE heap[i]],
         group |-> [group EXCEPT !.impact = f]]

\* _apply: the impact fields go on the group; the occurrences are read only
Apply(heap, group, wrap, cfg) ==
    [heap |-> heap, group |-> [group EXCEPT !.impact = ImpactFields(heap, group, wrap, cfg)]]

\* the groups in the order _augment_json_with_impact goes through them, each
\* with the wrap flag of its list: conflicts without, the two coexistence
\* lists with the wrap bonus
AugmentOrder(gs) ==
    [i \in 1..Len(gs.conflicts) |-> [group |-> gs.conflicts[i], wrap |-> FALSE]]
        \o [i \in 1..Len(gs.wrap_coexistence) |->
                [group |-> gs.wrap_coexistence[i], wrap |-> TRUE]]
        \o [i \in 1..Len(gs.replace_wrap_coexistence) |->
                [group |-> gs.replace_wrap_coexistence[i], wrap |-> TRUE]]

\* the state of the loops after one more _apply
Applied(acc, one) == [heap |-> one.heap, list |-> Append(acc.list, one.group)]

RECURSIVE ApplyAll(_, _, _, _)
\* for g in report.get(key, []) or []: _apply(g, wrap=wrap), from the i-th
\* group on; each call works on the entries the call before it left
ApplyAll(acc, order, i, cfg) ==
    IF i > Len(order) THEN acc
    ELSE ApplyAll(Applied(acc, Apply(acc.heap, order[i].group, order[i].wrap, cfg)),
                  order, i + 1, cfg)

\* the three lists of the report out of the groups in the order of the loops
Regroup(r, gs) ==
    [heap |-> r.heap,
     groups |-> [conflicts |-> SubSeq(r.list, 1, Len(gs.conflicts)),
                 wrap_coexistence |->
                     SubSeq(r.list, Len(gs.conflicts) + 1,
                            Len(gs.conflicts) + Len(gs.wrap_coexistence)),
                 replace_wrap_coexistence |->
                     SubSeq(r.list, Len(gs.conflicts) + Len(gs.wrap_coexistence) + 1,
                            Len(r.list))]]

\* _augment_json_with_impact
augment_json_with_impact(heap, gs, cfg) ==
    Regroup(ApplyAll([heap |-> heap, list |-> <<>>], AugmentOrder(gs), 1, cfg), gs)

\* method_has_wrap: the method is in one of the two coexistence lists
method_has_wrap(gs, cls, meth) ==
    \/ \E i \in 1..Len(gs.wrap_coexistence) :
           gs.wrap_coexistence[i].class = cls /\ gs.wrap_coexistence[i].method = meth
    \/ \E i \in 1..Len(gs.replace_wrap_coexistence) :
           /\ gs.replace_wrap_coexistence[i].class = cls
           /\ gs.replace_wrap_coexistence[i].method = meth

\* sev.lower() of a severity
SeverityLower(sev) ==
    CASE sev = "Critical" -> "critical" [] sev = "High" -> "high"
      [] sev = "Medium" -> "medium" [] sev = "Low" -> "low" [] OTHER -> ""

\* mod_matches: no token, or a token in the lowercased mod name
mod_matches(mods_tokens, mod_name) ==
    mods_tokens = <<>>
        \/ \E i \in 1..Len(mods_tokens) : Contains(Lower(mod_name), mods_tokens[i])

\* assess_conflict_impact with a bug: the preview computes the baseline
assess_conflict_impact_baseline(heap, gs, c, refs, cfg) ==
    compute_impact_unified(PyStr(c.class), PyStr(c.method), PyMods(GroupMods(c)),
                           PyOccurrences(heap, refs), cfg, FALSE, cfg)

\* _assess_conflict_impact: the wrap bonus when the method has a wrap
\* coexistence in the last report
assess_conflict_impact(heap, gs, c, refs, cfg) ==
    compute_impact_unified(PyStr(c.class), PyStr(c.method), PyMods(GroupMods(c)),
                           PyOccurrences(heap, refs), cfg,
                           method_has_wrap(gs, c.class, c.method), cfg)

\* whether a conflict passes the class, mod, severity and symptom filters,
\* given the occurrences the mod filter keeps
PassesFilters(heap, gs, c, kept, f, cfg) ==
    /\ f.cls_token = <<>> \/ Contains(Lower(c.class), f.cls_token)
    /\ f.mods_tokens = <<>> \/ kept # <<>>
    /\ SeverityLower(assess_conflict_impact(heap, gs, c, kept, cfg).severity)
           \in f.allowed_sev
    /\ classify_conflict_symptom(PyStr(Lower(c.class)), PyStr(c.method))
           \in f.active_symptom_codes

RECURSIVE FilterConflicts(_, _, _, _, _)
\* the loop of _filter_report_for_preview: a kept conflict is a copy of the
\* group, dict(c), with a new list of the occurrences the mod filter keeps
FilterConflicts(heap, gs, list, f, cfg) ==
    IF list = <<>> THEN <<>>
    ELSE LET c == Head(list)
             kept == SelectSeq(c.occurrences,
                               LAMBDA r : mod_matches(f.mods_tokens, heap[r].mod))
         IN  (IF PassesFilters(heap, gs, c, kept, f, cfg)
              THEN <<[c EXCEPT !.occurrences = kept]>> ELSE <<>>)
                 \o FilterConflicts(heap, gs, Tail(list), f, cfg)

\* _filter_report_for_preview: a new report, dict(report), with the filtered
\* conflicts
filter_report_for_preview(heap, gs, f, cfg) ==
    [heap |-> heap, conflicts |-> FilterConflicts(heap, gs, gs.conflicts, f, cfg)]

\* the key of sorted(conflicts, key=...): (class, method) as a tuple of str
KeyLess(a, b) ==
    StrLess(a.class, b.class) \/ (a.class = b.class /\ StrLess(a.method, b.method))

RECURSIVE SortedByKey(_)
\* sorted(conflicts, key=lambda x: (x.get('class',''), x.get('method',''))):
\* a stable sort
SortedByKey(list) ==
    IF list = <<>> THEN <<>>
    ELSE LET t == SortedByKey(SubSeq(list, 1, Len(list) - 1))
             x == list[Len(list)]
             p == Cardinality({i \in 1..Len(t) : ~KeyLess(x, t[i])})
         IN  SubSeq(t, 1, p) \o <<x>> \o SubSeq(t, p + 1, Len(t))

\* iter_conflicts with sort ignored
iter_conflicts_unsorted(conflicts, sort) == conflicts

\* iter_conflicts
iter_conflicts(conflicts, sort) == IF sort THEN SortedByKey(conflicts) ELSE conflicts

\* the heading of one conflict as a renderer writes it: the target and the
\* severity label
Heading(heap, gs, c, cfg) ==
    [class |-> c.class, method |-> c.method, count |-> c.count,
     severity |-> compute_impact_unified(PyStr(c.class), PyStr(c.method),
                      PyMods(GroupMods(c)), PyOccurrences(heap, GroupOccurrences(c)),
                      cfg, method_has_wrap(gs, c.class, c.method), cfg).severity]

\* build_markdown: one "### Class.Method" section per conflict, over
\* iter_conflicts(report, sort=True)
build_markdown(heap, gs, cfg) ==
    LET conflicts == iter_conflicts(gs.conflicts, TRUE)
    IN  [heap |-> heap,
         sections |-> [i \in 1..Len(conflicts) |-> Heading(heap, gs, conflicts[i], cfg)]]

\* build_html_body_gui: the rows of the summary table, numbered from 1, and
\* the detail sections, both over report['conflicts'] as it is
build_html_body_gui(heap, gs, cfg) ==
    LET conflicts == gs.conflicts
    IN  [heap |-> heap,
         table |-> [i \in 1..Len(conflicts) |->
                       [idx |-> i, row |-> Heading(heap, gs, conflicts[i], cfg)]],
         sections |-> [i \in 1..Len(conflicts) |-> Heading(heap, gs, conflicts[i], cfg)]]

\* the report root before main and the writers have set anything on it
NoOptions == [attached |-> FALSE, include_wrap_coexistence |-> TRUE, lang |-> "",
              legend |-> FALSE]

NoPreview == [filtered |-> FALSE, conflicts |-> <<>>]

NoRender == [markdown |-> [done |-> FALSE, sections |-> <<>>],
             html |-> [done |-> FALSE, table |-> <<>>, sections |-> <<>>]]

\* the filter settings of the preview: none, a mod token, a class token, no
\* severity ticked, no symptom ticked
FilterChoices ==
    LET all == [mods_tokens |-> <<>>, cls_token |-> <<>>,
                allowed_sev |-> {"critical", "high", "medium", "low"},
                active_symptom_codes |-> {SYMPTOM_KEYWORDS[i].code :
                                             i \in 1..Len(SYMPTOM_KEYWORDS)} \cup {K_other}]
    IN  {all,
         [all EXCEPT !.mods_tokens = <<Lower(P_ModA)>>],
         [all EXCEPT !.cls_token = Lower(sFoo)],
         [all EXCEPT !.allowed_sev = {}],
         [all EXCEPT !.active_symptom_codes = {}]}

\* replaceMethod of Foo and of Bar with one annotation
TWO_CLASS_FILE == <<L_ReplaceFooBar, L_FuncBar, L_Close>>

\* replaceMethod of Foo.Bar, then of Foo.Baz
BAR_BAZ_FILE == BAR_FILE_1 \o BAZ_FILE_1

\* replaceMethod of Foo.Baz, then of Foo.Bar
BAZ_BAR_FILE == BAZ_FILE_1 \o BAR_FILE_1

\* the trees of the report specification: ModA/bar1.reds alone, or with
\* ModB/bar1.reds, the two files drawn from contents that conflict, among them
\* PlayerPuppet.Bar replaced by both mods and wrapped by ModA
ReportTrees ==
    {[p \in {<<P_ModA, P_bar1_reds>>, <<P_ModB, P_bar1_reds>>} |->
         [readable |-> TRUE, outside |-> FALSE,
          lines |-> IF p = <<P_ModA, P_bar1_reds>> THEN a ELSE b]] :
        a \in {BAR_FILE_2, BAR_BAZ_FILE, BAZ_BAR_FILE}, b \in {BAR_FILE_2, BAR_BAZ_FILE}}
    \cup {[p \in {<<P_ModA, P_bar1_reds>>, <<P_ModB, P_bar1_reds>>} |->
              [readable |-> TRUE, outside |-> FALSE,
               lines |-> IF p = <<P_ModA, P_bar1_reds>> THEN PLAYER_FILE_2
                         ELSE PLAYER_FILE_1]]}
    \cup {[p \in {<<P_ModA, P_bar1_reds>>} |->
              [readable |-> TRUE, outside |-> FALSE, lines |-> c]] :
             c \in {TWO_CLASS_FILE, BAR_FILE_2}}

(***************************************************************************)
(* State                                                                   *)
(***************************************************************************)

VARIABLES
    \* scan_file, one call
    lines,      \* the lines of the file (what read_text().splitlines() gives)
    readable,   \* whether read_text succeeds
    idx,        \* number of lines the loop has consumed
    pending,    \* the pending annotation buffer
    scanned,    \* the local list "entries" of scan_file
    scanPc,     \* "read" | "loop" | "done"
    \* build_report, one call
    rootOk,     \* whether the root exists and can be listed
    fs,         \* the files under the root: path -> [readable, lines, outside]
    pc,         \* "discover" | "parse" | "enrich" | "group" | "done"
    reds_files, \* the discovered paths, in discovery order
    fileIdx,    \* number of files the parse loop has scanned
    entries,    \* the flat list of entries
    report,     \* the returned report, NoReport before the return
    raised,     \* whether build_report ended by raising to its caller
    \* the impact scorer
    args,                   \* the arguments of the calls: cls, meth, mods, entries, config
    candidates,             \* the candidate external profile files, in search order
    IMPACT_DEFAULT_CONFIG,  \* the module-level dict _IMPACT_DEFAULT_CONFIG
    IMPACT_EXTERNAL_CACHE,  \* the module-level _IMPACT_EXTERNAL_CACHE
    app_impact_cfg,         \* what the GUI's self._impact_cfg is bound to:
                            \* "unset" | "embedded" | "external"
    calls,                  \* the results of the calls made so far
    \* the report after build_report
    enriched,   \* the entries as the enrichment loop left them
    groups,     \* the three group lists of the report, occurrences by reference
    options,    \* what main and the writers have set on the report root
    preview,    \* the filtered report of the GUI preview
    rendered,   \* the conflict headings of the Markdown and HTML output
    \* the GUI
    last_report,      \* App._last_report
    last_render_args, \* the report of App._last_render_args
    filters,          \* the filter settings: the var_filter_* variables
    engine,           \* "webview2" | "text": whether self.webview2 is set
    include_wrap,     \* var_include_wrap
    btn_run,          \* the state of the Run button: "normal" | "disabled"
    clicks,           \* the clicks on Run the user still makes
    workers,          \* the position of every worker thread on_run has started
    tkQueue           \* the callbacks posted with self.after(0, ...), oldest first

scanVars == <<lines, readable, idx, pending, scanned, scanPc>>

buildVars == <<rootOk, fs, pc, reds_files, fileIdx, entries, report, raised>>

impactVars == <<args, candidates, IMPACT_DEFAULT_CONFIG, IMPACT_EXTERNAL_CACHE,
                app_impact_cfg, calls>>

postVars == <<enriched, groups, options, preview, rendered>>

guiVars == <<last_report, last_render_args, filters, engine, include_wrap, btn_run, clicks,
             workers, tkQueue>>

vars == <<scanVars, buildVars, impactVars, postVars, guiVars>>

\* the variables of the impact scorer while no call of it is modelled
ImpactIdle ==
    /\ args = NoArgs
    /\ candidates = <<>>
    /\ IMPACT_DEFAULT_CONFIG = DefaultProfile
    /\ IMPACT_EXTERNAL_CACHE = PyNone
    /\ app_impact_cfg = "unset"
    /\ calls = <<>>

(***************************************************************************)
(* scan_file as a state machine: one action per branch of the loop body    *)
(***************************************************************************)

NoReport == [files_scanned |-> 0, entries |-> <<>>,
             annotation_counts |-> [k \in AnnotationKinds |-> 0],
             conflicts |-> <<>>, wrap_coexistence |-> <<>>,
             replace_wrap_coexistence |-> <<>>]

\* the report variables before build_report has returned
PostIdle ==
    /\ enriched = <<>>
    /\ groups = NoGroups
    /\ options = NoOptions
    /\ preview = NoPreview
    /\ rendered = NoRender

\* the variables of build_report while no build_report call is modelled
BuildIdle ==
    /\ rootOk = TRUE
    /\ fs = <<>>
    /\ pc = "done"
    /\ reds_files = <<>>
    /\ fileIdx = 0
    /\ entries = <<>>
    /\ report = NoReport
    /\ raised = FALSE
    /\ PostIdle

\* App._last_report and App._last_render_args before the first scan: None
NoLast == [none |-> TRUE, conflicts |-> <<>>, wrap_coexistence |-> <<>>,
           replace_wrap_coexistence |-> <<>>]

\* the filter settings App.__init__ leaves: no token, every severity and every
\* symptom ticked
DefaultFilters ==
    [mods_tokens |-> <<>>, cls_token |-> <<>>,
     allowed_sev |-> {"critical", "high", "medium", "low"},
     active_symptom_codes |-> {SYMPTOM_KEYWORDS[i].code :
                                  i \in 1..Len(SYMPTOM_KEYWORDS)} \cup {K_other}]

\* the variables of the GUI while no GUI is modelled
GuiIdle ==
    /\ last_report = NoLast
    /\ last_render_args = NoLast
    /\ filters = DefaultFilters
    /\ engine = "webview2"
    /\ include_wrap = TRUE
    /\ btn_run = "normal"
    /\ clicks = 0
    /\ workers = <<>>
    /\ tkQueue = <<>>

ScanInit ==
    /\ lines \in UNION {[1..n -> LineVocab] : n \in 0..MaxLines}
                   \cup BetweenFiles \cup AnnotatedFiles
    /\ readable \in BOOLEAN
    /\ idx = 0
    /\ pending = <<>>
    /\ scanned = <<>>
    /\ scanPc = "read"
    /\ BuildIdle
    /\ ImpactIdle
    /\ GuiIdle

\* the variables of scan_file while no scan_file call is modelled
ScanIdle ==
    /\ lines = <<>>
    /\ readable = TRUE
    /\ idx = 0
    /\ pending = <<>>
    /\ scanned = <<>>
    /\ scanPc = "done"

\* read_text succeeded
ScanReadOk ==
    /\ scanPc = "read" /\ readable
    /\ scanPc' = "loop"
    /\ UNCHANGED <<lines, readable, idx, pending, scanned>>
    /\ UNCHANGED <<buildVars, impactVars, postVars, guiVars>>

\* read_text raised: return the empty list
ScanReadFail ==
    /\ scanPc = "read" /\ ~readable
    /\ scanPc' = "done"
    /\ UNCHANGED <<lines, readable, idx, pending, scanned>>
    /\ UNCHANGED <<buildVars, impactVars, postVars, guiVars>>

\* the loop body applied to the next line
ScanStep ==
    /\ LET st == ScanLine([pending |-> pending, entries |-> scanned],
                          lines[idx + 1], idx + 1, ScanPath)
       IN  pending' = st.pending /\ scanned' = st.entries
    /\ idx' = idx + 1
    /\ UNCHANGED <<lines, readable, scanPc>>
    /\ UNCHANGED <<buildVars, impactVars, postVars, guiVars>>

\* the next line is an annotation: queue it
ScanAnnotation ==
    /\ scanPc = "loop" /\ idx < Len(lines)
    /\ LineBranch(lines[idx + 1]) = "annotation"
    /\ ScanStep

\* the next line is blank or a comment: skip it
ScanSkip ==
    /\ scanPc = "loop" /\ idx < Len(lines)
    /\ LineBranch(lines[idx + 1]) = "skip"
    /\ ScanStep

\* the next line holds the token func: flush or clear the buffer
ScanFunc ==
    /\ scanPc = "loop" /\ idx < Len(lines)
    /\ LineBranch(lines[idx + 1]) = "func"
    /\ ScanStep

\* any other line: clear the buffer unless the line starts with @
ScanOther ==
    /\ scanPc = "loop" /\ idx < Len(lines)
    /\ LineBranch(lines[idx + 1]) = "other"
    /\ ScanStep

\* the loop is over: return entries
ScanReturn ==
    /\ scanPc = "loop" /\ idx = Len(lines)
    /\ scanPc' = "done"
    /\ UNCHANGED <<lines, readable, idx, pending, scanned>>
    /\ UNCHANGED <<buildVars, impactVars, postVars, guiVars>>

ScanNext ==
    \/ ScanReadOk
    \/ ScanReadFail
    \/ ScanAnnotation
    \/ ScanSkip
    \/ ScanFunc
    \/ ScanOther
    \/ ScanReturn

SpecScan == ScanInit /\ [][ScanNext]_vars

(***************************************************************************)
(* build_report as a state machine                                         *)
(***************************************************************************)

BuildStart ==
    /\ pc = "discover"
    /\ reds_files = <<>>
    /\ fileIdx = 0
    /\ entries = <<>>
    /\ report = NoReport
    /\ raised = FALSE
    /\ PostIdle
    /\ ScanIdle
    /\ ImpactIdle
    /\ GuiIdle

\* a tree of at most MaxFiles files, or a root that does not exist
TreeInit ==
    /\ rootOk \in BOOLEAN
    /\ fs \in (IF rootOk
               THEN UNION {[S -> FileChoices] :
                              S \in {T \in SUBSET TreePaths : Cardinality(T) <= MaxFiles}}
               ELSE {<<>>})
    /\ BuildStart

\* reds_files = list(root.rglob('*.reds'))
Discover ==
    /\ pc = "discover"
    /\ reds_files' \in Orders(Discovered(rootOk, fs))
    /\ pc' = "parse"
    /\ UNCHANGED <<rootOk, fs, fileIdx, entries, report, raised>>
    /\ UNCHANGED postVars
    /\ UNCHANGED <<scanVars, impactVars, guiVars>>

\* one iteration of: for f in reds_files: entries.extend(scan_file(f))
ParseFile ==
    /\ pc = "parse" /\ fileIdx < Len(reds_files)
    /\ entries' = AfterScan(entries, fs[reds_files[fileIdx + 1]], reds_files[fileIdx + 1])
    /\ fileIdx' = fileIdx + 1
    /\ UNCHANGED <<rootOk, fs, pc, reds_files, report, raised>>
    /\ UNCHANGED postVars
    /\ UNCHANGED <<scanVars, impactVars, guiVars>>

ParseDone ==
    /\ pc = "parse" /\ fileIdx = Len(reds_files)
    /\ pc' = "enrich"
    /\ UNCHANGED <<rootOk, fs, reds_files, fileIdx, entries, report, raised>>
    /\ UNCHANGED postVars
    /\ UNCHANGED <<scanVars, impactVars, guiVars>>

\* the enrichment loop: relpath and mod of every entry
Enrich ==
    /\ pc = "enrich"
    /\ entries' = [i \in 1..Len(entries) |->
                      EnrichEntry(entries[i], fs[entries[i].file].outside)]
    /\ pc' = "group"
    /\ UNCHANGED <<rootOk, fs, reds_files, fileIdx, report, raised>>
    /\ enriched' = entries'
    /\ UNCHANGED <<groups, options, preview, rendered>>
    /\ UNCHANGED <<scanVars, impactVars, guiVars>>

\* grouping, detection, and the return of the report
Group ==
    /\ pc = "group"
    /\ report' = [files_scanned |-> Len(reds_files),
                  entries |-> entries,
                  annotation_counts |-> AnnCounts(entries),
                  conflicts |-> ConflictsFrom(ByCmKeys(entries), entries),
                  wrap_coexistence |-> WrapCoexistenceFrom(ByCmKeys(entries), entries),
                  replace_wrap_coexistence |-> ReplaceWrapFrom(ByCmKeys(entries), entries)]
    /\ pc' = "done"
    /\ UNCHANGED <<rootOk, fs, reds_files, fileIdx, entries, raised>>
    /\ groups' = GroupObjects(report', entries)
    /\ UNCHANGED <<enriched, options, preview, rendered>>
    /\ UNCHANGED <<scanVars, impactVars, guiVars>>

BuildNext ==
    \/ Discover
    \/ ParseFile
    \/ ParseDone
    \/ Enrich
    \/ Group

Spec == TreeInit /\ [][BuildNext]_vars

\* one readable file at every depth up to MaxDepth, inside the root or resolving
\* outside it
PathInit ==
    /\ rootOk = TRUE
    /\ \E n \in 0..MaxDepth : \E dirs \in [1..n -> DirNames] : \E o \in BOOLEAN :
           fs = (Append(dirs, P_File_reds) :>
                     [readable |-> TRUE, lines |-> BAR_FILE_1, outside |-> o])
    /\ BuildStart

SpecPaths == PathInit /\ [][BuildNext]_vars

(***************************************************************************)
(* The impact scorer as a state machine: calls of compute_impact_unified   *)
(* with the same arguments, and between them the operations that touch the *)
(* default profile                                                         *)
(***************************************************************************)

ImpactInit ==
    /\ args \in [cls : ClassChoices, meth : MethodChoices, mods : ModsChoices,
                 entries : EntriesChoices, config : ConfigChoices]
    /\ candidates \in CandidateChoices
    /\ IMPACT_DEFAULT_CONFIG = DefaultProfile
    /\ IMPACT_EXTERNAL_CACHE = PyNone
    /\ app_impact_cfg = "unset"
    /\ calls = <<>>
    /\ ScanIdle
    /\ BuildIdle
    /\ GuiIdle

\* what get_default_impact_config() returns in the current state
CurrentDefault ==
    get_default_impact_config(IMPACT_EXTERNAL_CACHE, candidates, IMPACT_DEFAULT_CONFIG)

\* the config a call uses in the current state: config or the default
ResolvedConfig == IF Truthy(args.config) THEN args.config ELSE CurrentDefault

\* the caller computes the overall impact (wrap_coexist=True) and the baseline
\* (wrap_coexist=False) of a group with the same other arguments; with config
\* omitted each call goes through get_default_impact_config, which fills the
\* cache
ComputeImpact ==
    /\ Len(calls) < MaxCalls
    /\ calls' = Append(calls,
                  [overall |-> compute_impact_unified(args.cls, args.meth, args.mods,
                                   args.entries, args.config, TRUE, CurrentDefault),
                   baseline |-> compute_impact_unified(args.cls, args.meth, args.mods,
                                   args.entries, args.config, FALSE, CurrentDefault)])
    /\ IMPACT_EXTERNAL_CACHE' =
           IF Truthy(args.config) THEN IMPACT_EXTERNAL_CACHE
           ELSE load_external_default(IMPACT_EXTERNAL_CACHE, candidates).cache
    /\ UNCHANGED <<args, candidates, IMPACT_DEFAULT_CONFIG, app_impact_cfg>>
    /\ UNCHANGED <<scanVars, buildVars, postVars, guiVars>>

\* another component asks for the default profile (the report builders and
\* the JSON augmentation do): the external profile is read into the cache
LoadDefaultProfile ==
    /\ IMPACT_EXTERNAL_CACHE = PyNone
    /\ DefaultIsExternal(IMPACT_EXTERNAL_CACHE, candidates)
    /\ IMPACT_EXTERNAL_CACHE' = load_external_default(IMPACT_EXTERNAL_CACHE, candidates).cache
    /\ UNCHANGED <<args, candidates, IMPACT_DEFAULT_CONFIG, app_impact_cfg, calls>>
    /\ UNCHANGED <<scanVars, buildVars, postVars, guiVars>>

\* the GUI is constructed: self._impact_cfg = get_default_impact_config()
\* binds the attribute to the default object itself, and _load_settings_silent
\* then writes the override of the settings file into that object
AppInit ==
    /\ app_impact_cfg = "unset"
    /\ \E data \in SettingsChoices :
          LET ext == DefaultIsExternal(IMPACT_EXTERNAL_CACHE, candidates)
              loaded == LoadSettingsImpact(CurrentDefault, data)
          IN  /\ app_impact_cfg' = IF ext THEN "external" ELSE "embedded"
              /\ IMPACT_EXTERNAL_CACHE' = IF ext THEN loaded ELSE IMPACT_EXTERNAL_CACHE
              /\ IMPACT_DEFAULT_CONFIG' = IF ext THEN IMPACT_DEFAULT_CONFIG ELSE loaded
    /\ UNCHANGED <<args, candidates, calls>>
    /\ UNCHANGED <<scanVars, buildVars, postVars, guiVars>>

ImpactNext ==
    \/ ComputeImpact
    \/ LoadDefaultProfile
    \/ AppInit

SpecImpact == ImpactInit /\ [][ImpactNext]_vars

(***************************************************************************)
(* compute_impact_unified on its own: the arguments are drawn from         *)
(* families of inputs, one per aspect of the function, and the default     *)
(* profile is the embedded one                                             *)
(***************************************************************************)

\* largest number of mods in the boundary arguments
MaxMods == 100

DigitSeq == <<"0", "1", "2", "3", "4", "5", "6", "7", "8", "9">>

RECURSIVE DecimalText(_)
\* str(n) for n >= 0
DecimalText(n) ==
    IF n < 10 THEN <<DigitSeq[n + 1]>>
    ELSE DecimalText(n \div 10) \o <<DigitSeq[(n % 10) + 1]>>

\* BOUNDARY_CONFIG of the severity boundary test: the score is the number of
\* distinct mods
BOUNDARY_CONFIG ==
    PyDict([thresholds |-> Thresholds(95, 70, 45),
            weights |-> PyDict([per_mod |-> PyInt(1),
                                class_keywords |-> EmptyDict,
                                method_keywords |-> EmptyDict,
                                signature |-> PyDict([per_arg |-> PyInt(0),
                                                      has_return |-> PyInt(0)]),
                                wrap_coexist_bonus |-> PyInt(0)])])

\* mods = [f"m{i}" for i in range(score)]
BoundaryMods(score) == PyList([i \in 1..score |-> PyStr(<<"m">> \o DecimalText(i - 1))])

\* the calls of the severity boundary test, for every score up to MaxMods
BoundaryArgs ==
    {[cls |-> PyStr(<<>>), meth |-> PyStr(<<>>), mods |-> BoundaryMods(n),
      entries |-> PyList(<<>>), config |-> BOUNDARY_CONFIG] : n \in 0..MaxMods}

\* a profile whose tables differ from the embedded ones
AltProfile ==
    PyDict([thresholds |-> Thresholds(30, 20, 10),
            weights |->
                PyDict([per_mod |-> PyInt(7),
                        class_keywords |->
                            KeywordDict({<<K_ui, 3>>, <<K_hud, 5>>, <<K_vehicle, 1>>,
                                         <<Lower(sFoo), 2>>}),
                        method_keywords |->
                            KeywordDict({<<K_init, 4>>, <<K_initialize, 6>>,
                                         <<Lower(sBar), 1>>}),
                        signature |-> PyDict([per_arg |-> PyInt(2),
                                              has_return |-> PyInt(4)]),
                        wrap_coexist_bonus |-> PyInt(9)])])

\* well-formed calls: class and method names with none, one or several
\* keywords, mods with and without duplicates, occurrences with and without
\* arguments, an explicit profile or the default one
WellFormedArgs ==
    [cls : ClassChoices \cup {PyStr(<<>>)},
     meth : MethodChoices \cup {PyStr(<<>>)},
     mods : ModsChoices \cup {PyList(<<>>)},
     entries : EntriesChoices,
     config : {PyNone, DefaultProfile, AltProfile}]

UpperChar(c) ==
    IF \E i \in 1..26 : LowerSeq[i] = c
    THEN UpperSeq[CHOOSE i \in 1..26 : LowerSeq[i] = c]
    ELSE c

\* str.upper()
Upper(s) == [i \in 1..Len(s) |-> UpperChar(s[i])]

\* every keyword of _SYMPTOM_KEYWORDS
SymptomWords == UNION {SYMPTOM_KEYWORDS[i].kws : i \in 1..Len(SYMPTOM_KEYWORDS)}

\* class names made of no, one or two symptom keywords in either order and
\* in either letter case, with method names and profiles that vary the
\* severity
SymptomArgs ==
    {[cls |-> PyStr(a \o b), meth |-> m, mods |-> PyList(<<PyStr(P_ModA)>>),
      entries |-> PyList(<<>>), config |-> c] :
        a \in SymptomWords \cup {Upper(k) : k \in SymptomWords} \cup {<<>>, sFoo},
        b \in SymptomWords \cup {<<>>},
        m \in {PyStr(sBar), PyStr(K_vehicle \o sInitialize)},
        c \in {PyNone, AltProfile}}

\* del d[k]
Without(d, k) == PyDict([j \in (DOMAIN d.v) \ {k} |-> d.v[j]])

\* del cfg[section][k]
WithoutIn(cfg, section, k) == Put(cfg, section, Without(cfg.v[section], k))

\* cfg[section][k] = x
PutIn(cfg, section, k, x) == Put(cfg, section, Put(cfg.v[section], k, x))

\* a value int() rejects
Junk == PyStr(<<"x">>)

\* configs that lack a key the scorer reads: a whole section, one threshold,
\* one weight, one signature weight, or everything
IncompleteConfigs(base) ==
    {Without(base, "thresholds"), Without(base, "weights"), EmptyDict,
     Put(base, "thresholds", EmptyDict), Put(base, "weights", EmptyDict)}
    \cup {WithoutIn(base, "thresholds", k) : k \in {"critical", "high", "medium"}}
    \cup {WithoutIn(base, "weights", k) :
             k \in {"per_mod", "class_keywords", "method_keywords", "signature",
                    "wrap_coexist_bonus"}}
    \cup {PutIn(base, "weights", "signature", Without(base.v["weights"].v["signature"], k)) :
             k \in {"per_arg", "has_return"}}

\* configs with a value of the wrong type: the config itself, a section, a
\* weight, a keyword table or one of its weights, a threshold
MalformedConfigs(base) ==
    {PyInt(5), Junk, PyList(<<PyInt(1)>>),
     Put(base, "weights", PyInt(5)), Put(base, "thresholds", Junk),
     Put(base, "weights", PyNone), Put(base, "thresholds", PyNone),
     PutIn(base, "weights", "class_keywords", PyInt(3)),
     PutIn(base, "weights", "method_keywords", Junk),
     PutIn(base, "weights", "signature", PyInt(3)),
     PutIn(base, "weights", "class_keywords",
           Put(base.v["weights"].v["class_keywords"], K_ui, Junk)),
     PutIn(base, "weights", "class_keywords",
           Put(base.v["weights"].v["class_keywords"], K_quest, Junk)),
     PutIn(base, "weights", "signature", PyDict([per_arg |-> Junk, has_return |-> PyInt(6)])),
     PutIn(base, "weights", "signature", PyDict([per_arg |-> PyInt(3), has_return |-> PyNone]))}
    \cup {PutIn(base, "weights", k, x) :
             k \in {"per_mod", "wrap_coexist_bonus"}, x \in {Junk, PyNone, EmptyDict}}
    \cup {PutIn(base, "thresholds", k, x) :
             k \in {"critical", "high", "medium"}, x \in {Junk, PyNone}}

\* well-formed calls but for the config
ConfigFaultArgs ==
    {[cls |-> c[1], meth |-> c[2], mods |-> c[3],
      entries |-> PyList(<<Occurrence(L_FuncBar)>>), config |-> cfg] :
        c \in {<<PyStr(sVehicleUIHud), PyStr(sInitialize),
                 PyList(<<PyStr(P_ModA), PyStr(P_ModB), PyStr(P_ModC)>>)>>,
               <<PyStr(sFoo), PyStr(sBar), PyList(<<PyStr(P_ModA), PyStr(P_ModB)>>)>>},
        cfg \in UNION {IncompleteConfigs(b) \cup MalformedConfigs(b) :
                          b \in {DefaultProfile, AltProfile}}}

\* calls with arguments of the wrong type: names that are not text, mods
\* that are no list or hold an unhashable item, entries that are no list of
\* mappings, a signature that is not text, a config that is no mapping
WrongTypeArgs ==
    [cls : {PyStr(sFoo), PyNone, PyInt(5), PyList(<<PyStr(sFoo)>>)},
     meth : {PyStr(sBar), PyNone, PyInt(7)},
     mods : {PyList(<<PyStr(P_ModA), PyStr(P_ModB)>>), PyNone, PyInt(5), PyStr(sBar),
             PyList(<<PyList(<<PyStr(P_ModA)>>)>>), PyDict([a |-> PyInt(1)])},
     entries : {PyList(<<>>), PyNone, PyInt(5), Junk, PyList(<<PyInt(5)>>),
                PyList(<<PyDict([func_sig |-> PyInt(5)])>>)},
     config : {PyNone, PyInt(5), AltProfile}]

\* a profile under which the score is 1 with the has_return bonus and 0
\* without: Medium or Low
RETURN_PROBE ==
    PyDict([thresholds |-> Thresholds(3, 2, 1),
            weights |-> PyDict([per_mod |-> PyInt(0),
                                class_keywords |-> EmptyDict,
                                method_keywords |-> EmptyDict,
                                signature |-> PyDict([per_arg |-> PyInt(0),
                                                      has_return |-> PyInt(1)]),
                                wrap_coexist_bonus |-> PyInt(0)])])

\* a profile under which the score is args_count: Low, Medium, High for 0, 1,
\* 2 arguments, Critical from 3 on
ARGS_PROBE ==
    PyDict([thresholds |-> Thresholds(3, 2, 1),
            weights |-> PyDict([per_mod |-> PyInt(0),
                                class_keywords |-> EmptyDict,
                                method_keywords |-> EmptyDict,
                                signature |-> PyDict([per_arg |-> PyInt(1),
                                                      has_return |-> PyInt(0)]),
                                wrap_coexist_bonus |-> PyInt(0)])])

\* declaration lines whose signatures differ in arguments and return type
SignatureLines == {L_FuncBar, L_FuncBazIndented, L_FuncBazNoBrace, L_FuncBazLower,
                   L_FuncBarPublic, L_FuncCallback, L_FuncTwo}

\* calls with one occurrence, or two, whose signatures are the ones scan_file
\* records for these lines, under the two probing profiles
SignatureArgs ==
    {[cls |-> PyStr(<<>>), meth |-> PyStr(<<>>), mods |-> PyList(<<>>),
      entries |-> PyList(<<Occurrence(first)>> \o rest), config |-> c] :
        first \in SignatureLines,
        rest \in {<<>>} \cup {<<Occurrence(l)>> : l \in SignatureLines},
        c \in {RETURN_PROBE, ARGS_PROBE}}

ScoreArgs ==
    BoundaryArgs \cup WellFormedArgs \cup SymptomArgs \cup ConfigFaultArgs \cup WrongTypeArgs
        \cup SignatureArgs

ScoreInit ==
    /\ args \in ScoreArgs
    /\ candidates = <<>>
    /\ IMPACT_DEFAULT_CONFIG = DefaultProfile
    /\ IMPACT_EXTERNAL_CACHE = PyNone
    /\ app_impact_cfg = "unset"
    /\ calls = <<>>
    /\ ScanIdle
    /\ BuildIdle
    /\ GuiIdle

SpecScore == ScoreInit /\ [][ComputeImpact]_vars

(***************************************************************************)
(* The operations on a report build_report has returned                    *)
(***************************************************************************)

\* two mod folders with at most one file each
ReportInit ==
    /\ rootOk = TRUE
    /\ fs \in ReportTrees
    /\ BuildStart

\* _augment_json_with_impact(report, tr)
Augment ==
    /\ pc = "done"
    /\ \E r \in {augment_json_with_impact(entries, groups, IMPACT_DEFAULT_CONFIG)} :
          /\ entries' = r.heap
          /\ groups' = r.groups
    /\ UNCHANGED <<rootOk, fs, pc, reds_files, fileIdx, report, raised>>
    /\ UNCHANGED <<enriched, options, preview, rendered>>
    /\ UNCHANGED <<scanVars, impactVars, guiVars>>

\* main attaches the output options to the report root and, with --wrap
\* exclude, pops the two coexistence lists
SetOptions ==
    /\ pc = "done"
    /\ \E include_wrap_coexistence \in BOOLEAN :
          /\ options' = [options EXCEPT !.attached = TRUE,
                            !.include_wrap_coexistence = include_wrap_coexistence,
                            !.lang = "en"]
          /\ groups' = IF include_wrap_coexistence THEN groups
                       ELSE [groups EXCEPT !.wrap_coexistence = <<>>,
                                           !.replace_wrap_coexistence = <<>>]
    /\ UNCHANGED <<buildVars, enriched, preview, rendered>>
    /\ UNCHANGED <<scanVars, impactVars, guiVars>>

\* the GUI re-renders the preview: _filter_report_for_preview, with the
\* filter settings of the moment
FilterPreview ==
    /\ pc = "done"
    /\ \E f \in FilterChoices :
          \E r \in {filter_report_for_preview(entries, groups, f, IMPACT_DEFAULT_CONFIG)} :
              /\ entries' = r.heap
              /\ preview' = [filtered |-> TRUE, conflicts |-> r.conflicts]
    /\ UNCHANGED <<rootOk, fs, pc, reds_files, fileIdx, report, raised>>
    /\ UNCHANGED <<enriched, groups, options, rendered>>
    /\ UNCHANGED <<scanVars, impactVars, guiVars>>

\* write_markdown: build_markdown(report)
RenderMarkdown ==
    /\ pc = "done"
    /\ \E r \in {build_markdown(entries, groups, IMPACT_DEFAULT_CONFIG)} :
          /\ entries' = r.heap
          /\ rendered' = [rendered EXCEPT !.markdown = [done |-> TRUE, sections |-> r.sections]]
    /\ UNCHANGED <<rootOk, fs, pc, reds_files, fileIdx, report, raised>>
    /\ UNCHANGED <<enriched, groups, options, preview>>
    /\ UNCHANGED <<scanVars, impactVars, guiVars>>

\* write_html: the language goes on the report root, build_full_html_gui
\* injects the legend lines there and builds the body
RenderHtml ==
    /\ pc = "done"
    /\ \E r \in {build_html_body_gui(entries, groups, IMPACT_DEFAULT_CONFIG)} :
          /\ entries' = r.heap
          /\ rendered' = [rendered EXCEPT !.html = [done |-> TRUE, table |-> r.table,
                                                    sections |-> r.sections]]
    /\ options' = [options EXCEPT !.attached = TRUE, !.lang = "en", !.legend = TRUE]
    /\ UNCHANGED <<rootOk, fs, pc, reds_files, fileIdx, report, raised>>
    /\ UNCHANGED <<enriched, groups, preview>>
    /\ UNCHANGED <<scanVars, impactVars, guiVars>>

ReportNext ==
    \/ BuildNext
    \/ Augment
    \/ SetOptions
    \/ FilterPreview
    \/ RenderMarkdown
    \/ RenderHtml

SpecReport == ReportInit /\ [][ReportNext]_vars

(***************************************************************************)
(* The GUI: the Run button, the worker thread on_run starts, the callbacks *)
(* the worker posts to the Tk main loop, and the preview                   *)
(***************************************************************************)

\* number of workers on_run starts in one behaviour
MaxRuns == 2

RECURSIVE ParseAll(_, _, _)
\* for f in reds_files: entries.extend(scan_file(f))
ParseAll(files, order, es) ==
    IF order = <<>> THEN es
    ELSE ParseAll(files, Tail(order), AfterScan(es, files[Head(order)], Head(order)))

\* the enrichment loop over the parsed entries
EnrichAll(files, es) ==
    [i \in 1..Len(es) |-> EnrichEntry(es[i], files[es[i].file].outside)]

\* the report dict build_report assembles from the enriched entries
ReportOf(n, es, keys) ==
    [files_scanned |-> n,
     entries |-> es,
     annotation_counts |-> AnnCounts(es),
     conflicts |-> ConflictsFrom(keys, es),
     wrap_coexistence |-> WrapCoexistenceFrom(keys, es),
     replace_wrap_coexistence |-> ReplaceWrapFrom(keys, es)]

\* the returned report with its groups holding the entries by reference
Returned(es, rep) == [entries |-> es, report |-> rep, groups |-> GroupObjects(rep, es)]

\* what ReportOf and Returned make of the enriched entries
Assembled(n, es) == Returned(es, ReportOf(n, es, ByCmKeys(es)))

\* build_report(root) for a tree whose files rglob yields in the given order
build_report(files, order) ==
    Assembled(Len(order), EnrichAll(files, ParseAll(files, order, <<>>)))

\* the object self._impact_cfg refers to
AppConfig ==
    IF app_impact_cfg = "external" THEN IMPACT_EXTERNAL_CACHE ELSE IMPACT_DEFAULT_CONFIG

\* a report dict as the GUI holds it: the three group lists
Held(gs) ==
    [none |-> FALSE, conflicts |-> gs.conflicts, wrap_coexistence |-> gs.wrap_coexistence,
     replace_wrap_coexistence |-> gs.replace_wrap_coexistence]

\* new_report = dict(report); new_report['conflicts'] = new_conflicts
WithConflicts(rep, conflicts) == [rep EXCEPT !.conflicts = conflicts]

\* the severities the preview shows for the conflicts of a filtered report
\* whose occurrences are in heap: the WebView2 preview is built by
\* build_html_body_gui with the shared default profile, the text preview by
\* render_report_to_text with _assess_conflict_impact, which looks for the
\* wrap coexistence in the report in last
Shown(heap, last, rep, eng, cfg, default) ==
    [i \in 1..Len(rep.conflicts) |->
        IF eng = "webview2"
        THEN Heading(heap, rep, rep.conflicts[i], default).severity
        ELSE assess_conflict_impact(heap, last, rep.conflicts[i],
                                    rep.conflicts[i].occurrences, cfg).severity]

\* what a preview render leaves: the report it was given in _last_render_args,
\* and, when render_report_to_text ran, also in _last_report
Rendering(heap, last, rep, eng, cfg, default) ==
    [last_render_args |-> rep,
     last_report |-> IF eng = "text" THEN rep ELSE last,
     preview |-> [filtered |-> TRUE, conflicts |-> rep.conflicts,
                  shown |-> Shown(heap, IF eng = "text" THEN rep ELSE last,
                                  rep, eng, cfg, default)]]

\* _filter_report_for_preview(report) followed by the render of its result:
\* the filter assesses every conflict with _assess_conflict_impact, against
\* the report in last
FilterAndRender(heap, last, rep, f, eng, cfg, default) ==
    Rendering(heap, last,
              WithConflicts(rep, FilterConflicts(heap, last, rep.conflicts, f, cfg)),
              eng, cfg, default)

\* the filter settings the user chooses between: the initial ones, a mod
\* token, no severity ticked
GuiFilterChoices ==
    {DefaultFilters,
     [DefaultFilters EXCEPT !.mods_tokens = <<Lower(P_ModB)>>],
     [DefaultFilters EXCEPT !.allowed_sev = {}]}

\* the scanned trees: ModA/bar1.reds and ModB/bar1.reds both replace Foo.Bar
\* and Foo.Baz, or both replace PlayerPuppet.Bar and ModA wraps it as well
GuiTrees ==
    {[p \in {<<P_ModA, P_bar1_reds>>, <<P_ModB, P_bar1_reds>>} |->
         [readable |-> TRUE, outside |-> FALSE,
          lines |-> IF p = <<P_ModA, P_bar1_reds>> THEN t[1] ELSE t[2]]] :
        t \in {<<BAR_BAZ_FILE, BAR_BAZ_FILE>>, <<PLAYER_FILE_2, PLAYER_FILE_1>>}}

\* the tree of the concurrency scenario: one file that replaces and wraps
\* Foo.Bar
RunTree ==
    [p \in {<<P_ModA, P_bar1_reds>>} |->
        [readable |-> TRUE, outside |-> FALSE, lines |-> BAR_FILE_2]]

\* the GUI before App.__init__ has bound the impact profile: a tree under the
\* scan root, the order in which rglob lists it, the preview engine found, and
\* the number of clicks on Run the user is going to make
GuiStart(trees, n) ==
    /\ rootOk = TRUE
    /\ fs \in trees
    /\ reds_files \in Orders(Discovered(TRUE, fs))
    /\ pc = "discover"
    /\ fileIdx = 0
    /\ entries = <<>>
    /\ report = NoReport
    /\ raised = FALSE
    /\ PostIdle
    /\ ScanIdle
    /\ args = NoArgs
    /\ candidates \in CandidateChoices
    /\ IMPACT_DEFAULT_CONFIG = DefaultProfile
    /\ IMPACT_EXTERNAL_CACHE = PyNone
    /\ app_impact_cfg = "unset"
    /\ calls = <<>>
    /\ last_report = NoLast
    /\ last_render_args = NoLast
    /\ filters = DefaultFilters
    /\ engine \in {"webview2", "text"}
    /\ include_wrap = TRUE
    /\ btn_run = "normal"
    /\ clicks = n
    /\ workers = <<>>
    /\ tkQueue = <<>>

\* one scan, and the user at work on the preview
GuiInit == GuiStart(GuiTrees, 1)

\* MaxRuns clicks on Run
RunInit == GuiStart({RunTree}, MaxRuns)

\* a click on Run while the button is enabled: on_run checks the root and
\* starts a worker thread
OnRun ==
    /\ app_impact_cfg # "unset"
    /\ btn_run = "normal"
    /\ rootOk
    /\ clicks > 0
    /\ clicks' = clicks - 1
    /\ workers' = Append(workers, "start")
    /\ UNCHANGED <<last_report, last_render_args, filters, engine, include_wrap,
                   btn_run, tkQueue>>
    /\ UNCHANGED <<scanVars, buildVars, impactVars, postVars>>

\* work(): self.after(0, _start_ui)
WorkerStartUi(w) ==
    /\ workers[w] = "start"
    /\ tkQueue' = Append(tkQueue, "start_ui")
    /\ workers' = [workers EXCEPT ![w] = "build"]
    /\ UNCHANGED <<last_report, last_render_args, filters, engine, include_wrap,
                   btn_run>>
    /\ UNCHANGED <<scanVars, buildVars, impactVars, postVars>>
    /\ UNCHANGED clicks

\* work(): report = core.build_report(root)
WorkerBuild(w) ==
    /\ workers[w] = "build"
    /\ \E r \in {build_report(fs, reds_files)} :
          /\ entries' = r.entries
          /\ enriched' = r.entries
          /\ report' = r.report
          /\ groups' = r.groups
    /\ pc' = "done"
    /\ fileIdx' = Len(reds_files)
    /\ workers' = [workers EXCEPT ![w] = "cache"]
    /\ UNCHANGED <<rootOk, fs, reds_files, raised, options, preview, rendered>>
    /\ UNCHANGED <<last_report, last_render_args, filters, engine, include_wrap,
                   btn_run, tkQueue>>
    /\ UNCHANGED <<scanVars, impactVars>>
    /\ UNCHANGED clicks

\* work(): an exception leaves the try block
WorkerRaise(w) ==
    /\ workers[w] = "build"
    /\ workers' = [workers EXCEPT ![w] = "failed"]
    /\ UNCHANGED <<last_report, last_render_args, filters, engine, include_wrap,
                   btn_run, tkQueue>>
    /\ UNCHANGED <<scanVars, buildVars, impactVars, postVars>>
    /\ UNCHANGED clicks

\* work(): the include_wrap flag goes into the report options, then
\* self._last_report = report
WorkerCache(w) ==
    /\ workers[w] = "cache"
    /\ options' = [options EXCEPT !.attached = TRUE,
                                  !.include_wrap_coexistence = include_wrap]
    /\ last_report' = Held(groups)
    /\ workers' = [workers EXCEPT ![w] = "export"]
    /\ UNCHANGED <<enriched, groups, preview, rendered>>
    /\ UNCHANGED <<last_render_args, filters, engine, include_wrap, btn_run, tkQueue>>
    /\ UNCHANGED <<scanVars, buildVars, impactVars>>
    /\ UNCHANGED clicks

\* work(): the HTML file is written from build_html_body(report)
WorkerExport(w) ==
    /\ workers[w] = "export"
    /\ \E r \in {build_html_body_gui(entries, groups, CurrentDefault)} :
          rendered' = [rendered EXCEPT !.html = [done |-> TRUE, table |-> r.table,
                                                 sections |-> r.sections]]
    /\ workers' = [workers EXCEPT ![w] = "preview"]
    /\ UNCHANGED <<enriched, groups, options, preview>>
    /\ UNCHANGED <<last_report, last_render_args, filters, engine, include_wrap,
                   btn_run, tkQueue>>
    /\ UNCHANGED <<scanVars, buildVars, impactVars>>
    /\ UNCHANGED clicks

\* work(): filtered = self._filter_report_for_preview(report), the preview is
\* built from it, _last_render_args is set and, without WebView2,
\* render_report_to_text(filtered) runs
WorkerPreview(w) ==
    /\ workers[w] = "preview"
    /\ \E r \in {FilterAndRender(entries, last_report, Held(groups), filters, engine,
                                 AppConfig, CurrentDefault)} :
          /\ last_render_args' = r.last_render_args
          /\ last_report' = r.last_report
          /\ preview' = r.preview
    /\ workers' = [workers EXCEPT ![w] = "finish"]
    /\ UNCHANGED <<enriched, groups, options, rendered>>
    /\ UNCHANGED <<filters, engine, include_wrap, btn_run, tkQueue>>
    /\ UNCHANGED <<scanVars, buildVars, impactVars>>
    /\ UNCHANGED clicks

\* work(): self.after(0, _post_success), then in the finally clause
\* self.after(0, _stop_ui)
WorkerFinish(w) ==
    /\ workers[w] = "finish"
    /\ tkQueue' = tkQueue \o <<"post_success", "stop_ui">>
    /\ workers' = [workers EXCEPT ![w] = "done"]
    /\ UNCHANGED <<last_report, last_render_args, filters, engine, include_wrap,
                   btn_run>>
    /\ UNCHANGED <<scanVars, buildVars, impactVars, postVars>>
    /\ UNCHANGED clicks

\* work(): the except clause posts _post_error, the finally clause _stop_ui
WorkerFail(w) ==
    /\ workers[w] = "failed"
    /\ tkQueue' = tkQueue \o <<"post_error", "stop_ui">>
    /\ workers' = [workers EXCEPT ![w] = "done"]
    /\ UNCHANGED <<last_report, last_render_args, filters, engine, include_wrap,
                   btn_run>>
    /\ UNCHANGED <<scanVars, buildVars, impactVars, postVars>>
    /\ UNCHANGED clicks

\* the steps of the worker threads
Worker ==
    \E w \in 1..Len(workers) :
        \/ WorkerStartUi(w)
        \/ WorkerBuild(w)
        \/ WorkerRaise(w)
        \/ WorkerCache(w)
        \/ WorkerExport(w)
        \/ WorkerPreview(w)
        \/ WorkerFinish(w)
        \/ WorkerFail(w)

\* the main loop runs _start_ui: the Run button is disabled
StartUi ==
    /\ tkQueue # <<>> /\ Head(tkQueue) = "start_ui"
    /\ btn_run' = "disabled"
    /\ tkQueue' = Tail(tkQueue)
    /\ UNCHANGED <<last_report, last_render_args, filters, engine, include_wrap,
                   workers>>
    /\ UNCHANGED <<scanVars, buildVars, impactVars, postVars>>
    /\ UNCHANGED clicks

\* the main loop runs _stop_ui: the Run button is enabled
StopUi ==
    /\ tkQueue # <<>> /\ Head(tkQueue) = "stop_ui"
    /\ btn_run' = "normal"
    /\ tkQueue' = Tail(tkQueue)
    /\ UNCHANGED <<last_report, last_render_args, filters, engine, include_wrap,
                   workers>>
    /\ UNCHANGED <<scanVars, buildVars, impactVars, postVars>>
    /\ UNCHANGED clicks

\* the main loop runs _post_success or _post_error: a toast or a dialog
PostResult ==
    /\ tkQueue # <<>> /\ Head(tkQueue) \in {"post_success", "post_error"}
    /\ tkQueue' = Tail(tkQueue)
    /\ UNCHANGED <<last_report, last_render_args, filters, engine, include_wrap,
                   btn_run, workers>>
    /\ UNCHANGED <<scanVars, buildVars, impactVars, postVars>>
    /\ UNCHANGED clicks

\* the user edits a filter field or ticks a filter box
SetFilter ==
    /\ app_impact_cfg # "unset"
    /\ \E f \in GuiFilterChoices \ {filters} : filters' = f
    /\ UNCHANGED <<last_report, last_render_args, engine, include_wrap, btn_run,
                   workers, tkQueue>>
    /\ UNCHANGED <<scanVars, buildVars, impactVars, postVars>>
    /\ UNCHANGED clicks

\* _rerender_preview applied to the state: nothing without a last report,
\* else the last report is filtered and rendered
Rerendered(last) ==
    IF last.none
    THEN [last_render_args |-> last_render_args, last_report |-> last, preview |-> preview]
    ELSE FilterAndRender(entries, last, last, filters, engine, AppConfig, CurrentDefault)

\* _rerender_preview, from the Apply button or the debounced filter update
RerenderPreview ==
    /\ app_impact_cfg # "unset"
    /\ ~last_report.none
    /\ \E r \in {Rerendered(last_report)} :
          /\ last_render_args' = r.last_render_args
          /\ last_report' = r.last_report
          /\ preview' = r.preview
    /\ UNCHANGED <<enriched, groups, options, rendered>>
    /\ UNCHANGED <<filters, engine, include_wrap, btn_run, workers, tkQueue>>
    /\ UNCHANGED <<scanVars, buildVars, impactVars>>
    /\ UNCHANGED clicks

\* _on_include_wrap_toggle: the box is ticked or cleared, then _rerender_preview
ToggleIncludeWrap ==
    /\ app_impact_cfg # "unset"
    /\ include_wrap' = ~include_wrap
    /\ \E r \in {Rerendered(last_report)} :
          /\ last_render_args' = r.last_render_args
          /\ last_report' = r.last_report
          /\ preview' = r.preview
    /\ UNCHANGED <<enriched, groups, options, rendered>>
    /\ UNCHANGED <<filters, engine, btn_run, workers, tkQueue>>
    /\ UNCHANGED <<scanVars, buildVars, impactVars>>
    /\ UNCHANGED clicks

\* the theme is switched: without WebView2 the text preview is drawn again
\* from _last_render_args by render_report_to_text; with WebView2 the HTML
\* body of the last render is loaded again
ToggleTheme ==
    /\ app_impact_cfg # "unset"
    /\ IF engine = "text" /\ ~last_render_args.none
       THEN \E r \in {Rendering(entries, last_report, last_render_args, engine,
                                AppConfig, CurrentDefault)} :
               /\ last_report' = r.last_report
               /\ preview' = r.preview
       ELSE UNCHANGED <<last_report, preview>>
    /\ UNCHANGED <<enriched, groups, options, rendered>>
    /\ UNCHANGED <<last_render_args, filters, engine, include_wrap, btn_run, workers,
                   tkQueue>>
    /\ UNCHANGED <<scanVars, buildVars, impactVars>>
    /\ UNCHANGED clicks



GuiNext ==
    \/ AppInit
    \/ OnRun
    \/ Worker
    \/ StartUi
    \/ StopUi
    \/ PostResult
    \/ SetFilter
    \/ RerenderPreview
    \/ ToggleIncludeWrap
    \/ ToggleTheme

SpecGui == GuiInit /\ [][GuiNext]_vars

RunNext ==
    \/ AppInit
    \/ OnRun
    \/ Worker
    \/ StartUi
    \/ StopUi
    \/ PostResult

SpecRun == RunInit /\ [][RunNext]_vars

\* the positions of a worker thread
WorkerPcs == {"start", "build", "cache", "export", "preview", "finish", "failed", "done"}

\* a started thread that has not ended takes its next step
WorkerAdvance ==
    \E w \in 1..Len(workers) : \E p \in WorkerPcs :
        /\ workers[w] # "done"
        /\ workers' = [workers EXCEPT ![w] = p]

\* the main loop takes the oldest posted callback off its queue and runs it
MainLoopStep == tkQueue # <<>> /\ tkQueue' = Tail(tkQueue)

\* the main loop keeps running the posted callbacks, and a started thread
\* keeps running
SpecRunLive ==
    /\ SpecRun
    /\ WF_tkQueue(MainLoopStep)
    /\ WF_workers(WorkerAdvance)

(***************************************************************************)
(* Properties of build_report                                              *)
(***************************************************************************)

\* the (class, method) keys of the entries of the report
ReportKeys == {<<report.entries[i].class, report.entries[i].method>> :
                  i \in 1..Len(report.entries)}

\* the positions in the entries of the report of one annotation kind and key
OccOf(kind, key) ==
    {i \in 1..Len(report.entries) :
        /\ report.entries[i].annotation = kind
        /\ <<report.entries[i].class, report.entries[i].method>> = key}

\* the source files that apply one annotation kind to a key
FilesAnnotating(kind, key) == {report.entries[i].file : i \in OccOf(kind, key)}

\* the positions of the groups of a list that carry a key
GroupsFor(list, key) ==
    {i \in 1..Len(list) : <<list[i].class, list[i].method>> = key}

AllGroupKeys(list) == {<<list[i].class, list[i].method>> : i \in 1..Len(list)}

\* C1: a key is in conflicts iff its replaceMethod occurrences come from at
\* least 2 distinct files; then it has exactly one ConflictGroup, whose count
\* is the number of replaceMethod occurrences of the key.
C1_ConflictIffTwoFiles ==
    pc = "done" =>
        /\ AllGroupKeys(report.conflicts) \subseteq ReportKeys
        /\ \A key \in ReportKeys :
               LET g == GroupsFor(report.conflicts, key)
               IN  IF Cardinality(FilesAnnotating("replaceMethod", key)) >= 2
                   THEN /\ Cardinality(g) = 1
                        /\ \A i \in g : report.conflicts[i].count
                                            = Cardinality(OccOf("replaceMethod", key))
                   ELSE g = {}

\* a conflict whose count exceeds the number of files it comes from
C1_Witness ==
    /\ pc = "done"
    /\ \E i \in 1..Len(report.conflicts) :
           report.conflicts[i].count
               > Cardinality(FilesAnnotating("replaceMethod",
                     <<report.conflicts[i].class, report.conflicts[i].method>>))

\* the tree of the scenario: bar1.reds replaces Foo.Bar, bar2.reds replaces and wraps it
BarScenario ==
    (<<P_ModA, P_bar1_reds>> :> [readable |-> TRUE, lines |-> BAR_FILE_1, outside |-> FALSE])
        @@ (<<P_ModA, P_bar2_reds>> :> [readable |-> TRUE, lines |-> BAR_FILE_2, outside |-> FALSE])

\* C2: a key has a ReplaceWrapCoexistenceGroup iff it has at least one
\* replaceMethod and at least one wrapMethod occurrence, in whatever files;
\* the bar1/bar2 scenario gives one ConflictGroup of count 2, no
\* WrapCoexistenceGroup and one ReplaceWrapCoexistenceGroup.
C2_ReplaceWrapIffBoth ==
    pc = "done" =>
        /\ AllGroupKeys(report.replace_wrap_coexistence) \subseteq ReportKeys
        /\ \A key \in ReportKeys :
               LET g == GroupsFor(report.replace_wrap_coexistence, key)
               IN  IF OccOf("replaceMethod", key) # {} /\ OccOf("wrapMethod", key) # {}
                   THEN Cardinality(g) = 1
                   ELSE g = {}
        /\ fs = BarScenario =>
               /\ Len(report.conflicts) = 1
               /\ report.conflicts[1].class = sFoo
               /\ report.conflicts[1].method = sBar
               /\ report.conflicts[1].count = 2
               /\ report.wrap_coexistence = <<>>
               /\ Len(report.replace_wrap_coexistence) = 1

\* a single file that both replaces and wraps a method, and its group
C2_Witness ==
    /\ pc = "done"
    /\ Cardinality(DOMAIN fs) = 1
    /\ Len(report.replace_wrap_coexistence) = 1
    /\ report.conflicts = <<>>

\* C3: a key has a WrapCoexistenceGroup iff its wrapMethod occurrences come
\* from at least 2 distinct files, and then it has exactly one.
C3_WrapCoexistIffTwoFiles ==
    pc = "done" =>
        /\ AllGroupKeys(report.wrap_coexistence) \subseteq ReportKeys
        /\ \A key \in ReportKeys :
               LET g == GroupsFor(report.wrap_coexistence, key)
               IN  IF Cardinality(FilesAnnotating("wrapMethod", key)) >= 2
                   THEN Cardinality(g) = 1
                   ELSE g = {}

\* a method wrapped twice in one file and nowhere else, and no group for it
C3_Witness ==
    /\ pc = "done"
    /\ report.wrap_coexistence = <<>>
    /\ \E key \in ReportKeys :
           /\ Cardinality(OccOf("wrapMethod", key)) >= 2
           /\ Cardinality(FilesAnnotating("wrapMethod", key)) = 1

\* C5: for a root that does not exist or cannot be listed, build_report ends
\* with an error raised to its caller, never with a normal empty report.
C5_BadRootRaises ==
    (pc = "done" /\ ~rootOk) =>
        /\ raised
        /\ ~(report.files_scanned = 0 /\ report.conflicts = <<>>)

\* the file of the example, relative to the scan root /proj
SomeModFile == <<P_SomeMod, P_r6, P_scripts, P_sub, P_File_reds>>

\* C6: with the mod laid out as <mod_name>/r6/scripts/... under the root, the
\* occurrences of SomeMod/r6/scripts/sub/File.reds get mod = SomeMod, the
\* top-level directory under the scan root.
C6_ModIsTopLevelDir ==
    pc = "done" =>
        \A i \in 1..Len(report.entries) :
            (report.entries[i].file = SomeModFile /\ ~fs[SomeModFile].outside)
                => report.entries[i].mod = P_SomeMod

\* the segments of the root-relative path recorded for an entry
Segments(e) == Split(e.relpath, "/")

\* the mod the stated precedence gives for the segments of a relative path
ModByPrecedence(segs) ==
    LET n == Len(segs)
        low == [i \in 1..n |-> Lower(segs[i])]
        r6s == {i \in 1..n : low[i] = P_r6}
        scs == {i \in 1..n : low[i] = P_scripts}
        k == CHOOSE i \in r6s : \A j \in r6s : i <= j
        s == CHOOSE i \in scs : \A j \in scs : i <= j
    IN  CASE r6s # {} /\ k + 2 <= n /\ low[k + 1] = P_scripts -> segs[k + 2]
          [] r6s # {} /\ k + 1 <= n /\ ~(k + 2 <= n /\ low[k + 1] = P_scripts) -> segs[k + 1]
          [] (r6s = {} \/ k = n) /\ scs # {} /\ s + 1 <= n -> segs[s + 1]
          [] (r6s = {} \/ k = n) /\ scs # {} /\ s = n -> segs[1]
          [] (r6s = {} \/ k = n) /\ scs = {} /\ n >= 1 -> segs[1]
          [] OTHER -> T_root

EntriesFrom(f) ==
    Cardinality({i \in 1..Len(report.entries) : report.entries[i].file = f})

\* C8: an unreadable file gives no entries and raises nothing, and every
\* readable .reds file has all its occurrences in the report, wherever the
\* unreadable file comes in the discovery order.
C8_UnreadableFileIsolated ==
    pc = "done" =>
        /\ ~raised
        /\ report.files_scanned = Len(reds_files)
        /\ \A f \in DOMAIN fs :
               EndsWith(f[Len(f)], T_dot_reds) =>
                   EntriesFrom(f) = IF fs[f].readable
                                    THEN Len(scan_file(TRUE, fs[f].lines, f))
                                    ELSE 0

\* an unreadable file follows a readable one whose occurrences are reported
C8_Witness ==
    /\ pc = "done"
    /\ Len(reds_files) = 2
    /\ fs[reds_files[1]].readable /\ ~fs[reds_files[2]].readable
    /\ EntriesFrom(reds_files[1]) > 0
    /\ EntriesFrom(reds_files[2]) = 0

(***************************************************************************)
(* Properties of scan_file                                                 *)
(***************************************************************************)

\* 'func Baz() -> Void {'
sFuncBazSig == <<"f", "u", "n", "c", " ", "B", "a", "z", "(", ")", " ", "-", ">", " ", "V", "o", "i", "d", " ", "{">>

\* the declaration lines of the vocabulary: the identifier each declares
DeclaredName(line) ==
    CASE line = L_FuncBar -> sBar
      [] line = L_FuncBazIndented -> sBaz

\* the text of a declaration line without its leading and trailing white space
DeclTrimmed(line) ==
    CASE line = L_FuncBar -> L_FuncBar
      [] line = L_FuncBazIndented -> sFuncBazSig

\* the text of a declaration line as it stands
DeclRaw(line) == line

IsDeclLine(line) == line \in {L_FuncBar, L_FuncBazIndented}

RECURSIVE TotalClasses(_)
\* n1 + ... + nk for the queued annotations
TotalClasses(pend) ==
    IF pend = <<>> THEN 0 ELSE Len(Head(pend).classes) + TotalClasses(Tail(pend))

\* what a step from a declaration line with a non-empty buffer does, for a
\* given reading Sig of "the declaration line text"
FlushStep(Sig(_)) ==
    (scanPc = "loop" /\ idx < Len(lines) /\ IsDeclLine(lines[idx + 1]) /\ pending # <<>>)
        => /\ pending' = <<>>
           /\ Len(scanned') = Len(scanned) + TotalClasses(pending)
           /\ SubSeq(scanned', 1, Len(scanned)) = scanned
           /\ \A j \in 1..Len(pending) : \A c \in 1..Len(pending[j].classes) :
                  LET e == scanned'[Len(scanned) + TotalClasses(SubSeq(pending, 1, j - 1)) + c]
                  IN  /\ e.annotation = pending[j].ann
                      /\ e.class = pending[j].classes[c]
                      /\ e.method = DeclaredName(lines[idx + 1])
                      /\ e.func_sig = Sig(lines[idx + 1])
                      /\ e.line = pending[j].line
                      /\ e.line <= idx
                      /\ ANNOTATION_RE(lines[e.line]).ok
                      /\ ANNOTATION_RE(lines[e.line]).ann = e.annotation

Tier(sev) ==
    CASE sev = "Low" -> 1
      [] sev = "Medium" -> 2
      [] sev = "High" -> 3
      [] sev = "Critical" -> 4
      [] OTHER -> 0

\* the wrap_coexist_bonus the call reads from cfg is a non-negative number
BonusNonNegative(cfg) ==
    /\ cfg.t = "dict"
    /\ LET weights == OrEmptyDict(Get(cfg, "weights", PyNone))
       IN  /\ weights.t = "dict"
           /\ IntOk(Get(weights, "wrap_coexist_bonus", PyInt(0)))
           /\ IntOf(Get(weights, "wrap_coexist_bonus", PyInt(0))) >= 0

\* C9: for any class, method, mods, occurrences and config whose
\* wrap_coexist_bonus is non-negative, whatever the thresholds, a step that
\* computes the impact with wrap_coexist=False and with wrap_coexist=True for
\* the same other arguments never gives the former a higher tier than the
\* latter.
C9_BaselineNeverHigher ==
    [][(calls' # calls /\ BonusNonNegative(ResolvedConfig))
          => Tier(calls'[Len(calls')].baseline.severity)
                 <= Tier(calls'[Len(calls')].overall.severity)]_vars

\* an explicit config with a non-negative bonus for which the bonus moves
\* the severity from Low to Medium
C9_Witness ==
    /\ Len(calls) > 0
    /\ Truthy(args.config)
    /\ BonusNonNegative(args.config)
    /\ calls[1].baseline.severity = "Low"
    /\ calls[1].overall.severity = "Medium"

\* C10: compute_impact_unified called twice with identical arguments, config
\* omitted included, returns identical results whatever operations of the
\* program run between the two calls.
C10_RepeatedCallSameResult ==
    \A i \in 1..Len(calls) : \A j \in 1..Len(calls) : calls[i] = calls[j]

\* the weights the call reads in the current state
ArgsWeights == OrEmptyDict(Get(ResolvedConfig, "weights", PyNone))

\* whether the score of the current arguments is computed without raising
ArgsScoreOk(wrap_coexist) ==
    /\ ResolvedConfig.t = "dict"
    /\ ScoreOk(args.cls, args.meth, args.mods, args.entries, ArgsWeights, wrap_coexist)

\* the score of the current arguments
ArgsScore(wrap_coexist) ==
    Score(args.cls, args.meth, args.mods, args.entries, ArgsWeights, wrap_coexist)

\* the thresholds of cfg are exactly critical = c, high = h, medium = m
ThresholdsAre(cfg, c, h, m) ==
    cfg.t = "dict" /\ Get(cfg, "thresholds", PyNone) = Thresholds(c, h, m)

\* the severity sev is the one the claim gives the score s under 95 / 70 / 45
BoundsHold(s, sev) ==
    /\ (sev = "Critical") <=> (s >= 95)
    /\ (sev = "High") <=> (70 <= s /\ s < 95)
    /\ (sev = "Medium") <=> (45 <= s /\ s < 70)
    /\ (sev = "Low") <=> (s < 45)
    /\ (s = 44) => (sev = "Low")
    /\ (s = 45) => (sev = "Medium")
    /\ (s = 69) => (sev = "Medium")
    /\ (s = 70) => (sev = "High")
    /\ (s = 94) => (sev = "High")
    /\ (s = 95) => (sev = "Critical")

\* C11: the thresholds are inclusive lower bounds compared in the order
\* critical, high, medium: with critical = 95, high = 70, medium = 45 a score
\* s gives Critical iff s >= 95, High iff 70 <= s < 95, Medium iff
\* 45 <= s < 70 and Low iff s < 45 (44 Low, 45 Medium, 69 Medium, 70 High,
\* 94 High, 95 Critical).
C11_InclusiveThresholds ==
    \A i \in 1..Len(calls) :
        ThresholdsAre(ResolvedConfig, 95, 70, 45) =>
            /\ ArgsScoreOk(FALSE) => BoundsHold(ArgsScore(FALSE), calls[i].baseline.severity)
            /\ ArgsScoreOk(TRUE) => BoundsHold(ArgsScore(TRUE), calls[i].overall.severity)

\* a call whose score is exactly the medium threshold
C11_Witness ==
    /\ Len(calls) > 0
    /\ ThresholdsAre(ResolvedConfig, 95, 70, 45)
    /\ ArgsScoreOk(FALSE)
    /\ ArgsScore(FALSE) = 45
    /\ calls[1].baseline.severity = "Medium"

\* every entry of a keyword table is a number
IntTable(x) == x.t = "dict" /\ \A k \in DOMAIN x.v : x.v[k].t = "int"

\* a well-formed config: thresholds and weights with every expected entry
WellFormedConfig(cfg) ==
    /\ cfg.t = "dict" /\ DOMAIN cfg.v = {"thresholds", "weights"}
    /\ LET th == cfg.v["thresholds"]
           w == cfg.v["weights"]
       IN  /\ th.t = "dict" /\ DOMAIN th.v = {"critical", "high", "medium"}
           /\ \A k \in DOMAIN th.v : th.v[k].t = "int"
           /\ w.t = "dict"
           /\ DOMAIN w.v = {"per_mod", "class_keywords", "method_keywords",
                            "signature", "wrap_coexist_bonus"}
           /\ w.v["per_mod"].t = "int" /\ w.v["wrap_coexist_bonus"].t = "int"
           /\ IntTable(w.v["class_keywords"]) /\ IntTable(w.v["method_keywords"])
           /\ IntTable(w.v["signature"])
           /\ DOMAIN w.v["signature"].v = {"per_arg", "has_return"}

\* well-formed arguments: names are text, mods a list of text
WellFormedCall ==
    /\ WellFormedConfig(ResolvedConfig)
    /\ args.cls.t = "str" /\ args.meth.t = "str"
    /\ args.mods.t = "list" /\ \A i \in 1..Len(args.mods.v) : args.mods.v[i].t = "str"
    /\ args.entries.t = "list"
    /\ \A i \in 1..Len(args.entries.v) :
           args.entries.v[i].t = "dict" /\ Get(args.entries.v[i], "func_sig", PyNone).t = "str"

RECURSIVE SumOfWeights(_, _)
\* the sum of the weights of the keywords keys of a table
SumOfWeights(table, keys) ==
    IF keys = {} THEN 0
    ELSE LET k == CHOOSE x \in keys : TRUE
         IN  table.v[k].v + SumOfWeights(table, keys \ {k})

\* the keywords of a table that are substrings of the lowercased name
Matching(table, name) == {k \in DOMAIN table.v : Contains(Lower(name.v), k)}

\* the score as the claim states it, for well-formed arguments and config cfg
ClaimedScoreFor(cfg, wrap_coexist) ==
    LET w == cfg.v["weights"].v
        distinct == {args.mods.v[i].v : i \in 1..Len(args.mods.v)}
        sig == IF args.entries.v = <<>> THEN PyStr(<<>>)
               ELSE args.entries.v[1].v["func_sig"]
    IN  w["per_mod"].v * Cardinality(distinct)
            + SumOfWeights(w["class_keywords"], Matching(w["class_keywords"], args.cls))
            + SumOfWeights(w["method_keywords"], Matching(w["method_keywords"], args.meth))
            + w["signature"].v["per_arg"].v * ArgsCount(sig)
            + (IF HasReturn(sig) THEN w["signature"].v["has_return"].v ELSE 0)
            + (IF wrap_coexist THEN w["wrap_coexist_bonus"].v ELSE 0)

ClaimedScore(wrap_coexist) == ClaimedScoreFor(ResolvedConfig, wrap_coexist)

\* C12: for a well-formed config the score compared with the thresholds is
\* per_mod x (number of distinct mod ids) + the weights of every class keyword
\* that is a substring of the lowercased class name + the weights of every
\* method keyword that is a substring of the lowercased method name +
\* per_arg x arg_count + the has_return bonus when applicable +
\* wrap_coexist_bonus when wrap_coexist is true; overlapping keywords all add
\* their points and duplicate mod ids count once.
C12_ScoreIsSumOfParts ==
    \A i \in 1..Len(calls) :
        WellFormedCall =>
            LET th == ResolvedConfig.v["thresholds"]
            IN  /\ ArgsScoreOk(FALSE) /\ ArgsScoreOk(TRUE)
                /\ ArgsScore(FALSE) = ClaimedScore(FALSE)
                /\ ArgsScore(TRUE) = ClaimedScore(TRUE)
                /\ calls[i].baseline.severity = Severity(ClaimedScore(FALSE), th)
                /\ calls[i].overall.severity = Severity(ClaimedScore(TRUE), th)

\* ui, hud and vehicle in the class name, init and initialize in the method
\* name, one mod id given twice: 10 + (15 + 8 + 8) + (10 + 10) under the
\* embedded profile
C12_Witness ==
    /\ Len(calls) > 0
    /\ WellFormedCall
    /\ ResolvedConfig = DefaultProfile
    /\ args.cls = PyStr(sVehicleUIHud)
    /\ args.meth = PyStr(sInitialize)
    /\ args.mods = PyList(<<PyStr(P_ModA), PyStr(P_ModA)>>)
    /\ args.entries = PyList(<<>>)
    /\ ArgsScore(FALSE) = 61
    /\ ArgsScore(TRUE) = 73

\* one of the words is a substring of the lowercased name
HasAny(name, words) == \E k \in words : Contains(Lower(name), k)

\* the symptom the claim gives a class name
ClaimedSymptom(name) ==
    IF HasAny(name, {K_ui, K_hud, K_ink}) THEN K_uiHud
    ELSE IF HasAny(name, {K_player, K_puppet, K_equipment}) THEN K_player
    ELSE IF HasAny(name, {K_vehicle}) THEN K_vehicle
    ELSE IF HasAny(name, {K_quest, K_journal, K_fact}) THEN K_quest
    ELSE IF HasAny(name, {K_inventory}) THEN K_inventory
    ELSE IF HasAny(name, {K_damage, K_hit}) THEN K_damage
    ELSE K_other

WellFormedOperands ==
    /\ args.cls.t = "str" /\ args.meth.t = "str"
    /\ args.mods.t = "list" /\ \A i \in 1..Len(args.mods.v) : args.mods.v[i].t = "str"
    /\ args.entries.t = "list"
    /\ \A i \in 1..Len(args.entries.v) :
           args.entries.v[i].t = "dict" /\ Get(args.entries.v[i], "func_sig", PyNone).t = "str"

\* d with x under k unless d has k
WithDefault(d, k, x) == IF k \in DOMAIN d.v THEN d ELSE Put(d, k, x)

\* the config with every absent key given its fallback: thresholds 80 / 60 /
\* 40, weights 0, empty keyword tables; an empty config is the default profile
Completed(cfg) ==
    IF ~Truthy(cfg) THEN CurrentDefault
    ELSE LET th0 == Get(cfg, "thresholds", EmptyDict)
             th == WithDefault(WithDefault(WithDefault(th0, "critical", PyInt(80)),
                                           "high", PyInt(60)), "medium", PyInt(40))
             w0 == Get(cfg, "weights", EmptyDict)
             w1 == WithDefault(WithDefault(WithDefault(WithDefault(WithDefault(w0,
                       "per_mod", PyInt(0)), "class_keywords", EmptyDict),
                       "method_keywords", EmptyDict), "signature", EmptyDict),
                       "wrap_coexist_bonus", PyInt(0))
             sg == WithDefault(WithDefault(w1.v["signature"], "per_arg", PyInt(0)),
                               "has_return", PyInt(0))
         IN  PyDict([thresholds |-> th, weights |-> Put(w1, "signature", sg)])

\* a config whose only fault is absent keys
OnlyMissing(cfg) ==
    /\ cfg.t = "dict" /\ ~WellFormedConfig(cfg)
    /\ DOMAIN cfg.v \subseteq {"thresholds", "weights"}
    /\ \A k \in DOMAIN cfg.v : cfg.v[k].t = "dict"
    /\ "weights" \in DOMAIN cfg.v =>
           ("signature" \in DOMAIN cfg.v["weights"].v =>
                cfg.v["weights"].v["signature"].t = "dict")
    /\ WellFormedConfig(Completed(cfg))

\* a config with a value of the wrong type in a place every call reads: the
\* config, weights or thresholds a non-empty non-mapping, a keyword table or
\* the signature table a non-empty non-mapping, or per_mod, per_arg,
\* has_return or critical present and not convertible to an integer
AlwaysFaulty(cfg) ==
    /\ Truthy(cfg)
    /\ \/ cfg.t # "dict"
       \/ LET w == Get(cfg, "weights", PyNone)
              th == Get(cfg, "thresholds", PyNone)
              Bad(d, k) == d.t = "dict" /\ k \in DOMAIN d.v /\ ~IntOk(d.v[k])
              BadTable(d, k) == d.t = "dict" /\ k \in DOMAIN d.v
                                    /\ Truthy(d.v[k]) /\ d.v[k].t # "dict"
              sg == IF w.t = "dict" THEN Get(w, "signature", PyNone) ELSE PyNone
          IN  \/ Truthy(w) /\ w.t # "dict"
              \/ Truthy(th) /\ th.t # "dict"
              \/ Bad(w, "per_mod") \/ Bad(th, "critical")
              \/ BadTable(w, "class_keywords") \/ BadTable(w, "method_keywords")
              \/ BadTable(w, "signature")
              \/ Bad(sg, "per_arg") \/ Bad(sg, "has_return")

\* C14 as stated: compute_impact_unified called with a config that is
\* malformed or lacks expected keys (no thresholds mapping, no weights
\* mapping, or a missing individual threshold or weight entry) returns the
\* safe empty result {severity: '', message: ''}.
C14_FaultyConfigGivesEmpty ==
    \A i \in 1..Len(calls) :
        (args.config # PyNone /\ ~WellFormedConfig(args.config)) =>
            (calls[i].overall = EmptyImpact /\ calls[i].baseline = EmptyImpact)

\* C14 amended: a config with a wrongly typed value in a place every call
\* reads gives the safe empty result; absent keys are no error: a config that
\* only lacks keys is scored with the fallbacks (thresholds 80 / 60 / 40,
\* weights 0, empty keyword tables; the default profile for an empty config)
\* and the call returns a severity, never the empty result.
C14_MissingKeysDefaulted ==
    \A i \in 1..Len(calls) :
        /\ AlwaysFaulty(args.config) =>
               (calls[i].overall = EmptyImpact /\ calls[i].baseline = EmptyImpact)
        /\ (OnlyMissing(args.config) /\ WellFormedOperands) =>
               LET cfg == Completed(args.config)
               IN  /\ calls[i].overall.severity =
                          Severity(ClaimedScoreFor(cfg, TRUE), cfg.v["thresholds"])
                   /\ calls[i].baseline.severity =
                          Severity(ClaimedScoreFor(cfg, FALSE), cfg.v["thresholds"])
                   /\ calls[i].overall.message # <<>>
                   /\ calls[i].baseline.message # <<>>

\* a call with the alternative profile without its thresholds has been scored
\* against 80 / 60 / 40: 46 and 55 are Medium, and would be Critical against
\* the profile's own 30 / 20 / 10
C14_Witness ==
    /\ Len(calls) = 1
    /\ args.config = Without(AltProfile, "thresholds")
    /\ args.cls = PyStr(sVehicleUIHud) /\ args.meth = PyStr(sInitialize)
    /\ calls[1].baseline.severity = "Medium"
    /\ calls[1].overall.severity = "Medium"

\* ---------------------------------------------------------------------------
\* The shape of the result
\* ---------------------------------------------------------------------------

\* a result of the documented shape
SafeShape(r) ==
    /\ DOMAIN r = {"severity", "message"}
    /\ r.severity \in {"Critical", "High", "Medium", "Low", ""}
    /\ r.severity = "" => r.message = <<>>

\* C15: compute_impact_unified never raises to its caller: for all inputs,
\* wrongly typed cls, meth, mods, entries or config included, it returns a
\* mapping with the keys severity and message, severity one of Critical,
\* High, Medium, Low and '', and '' only together with an empty message.
C15_SafeResultShape ==
    \A i \in 1..Len(calls) : SafeShape(calls[i].overall) /\ SafeShape(calls[i].baseline)

\* a call whose class name is a number and whose mods hold a list has
\* returned the empty result, under a well-formed explicit config
C15_Witness ==
    /\ Len(calls) = 1
    /\ args.cls = PyInt(5)
    /\ args.mods = PyList(<<PyList(<<PyStr(P_ModA)>>)>>)
    /\ args.config = AltProfile
    /\ calls[1].overall = EmptyImpact /\ calls[1].baseline = EmptyImpact

\* ---------------------------------------------------------------------------
\* The report after build_report
\* ---------------------------------------------------------------------------

\* the occurrences a list of groups refers to are entries
RefsValid(list) ==
    \A i \in 1..Len(list) :
        \A r \in {GroupOccurrences(list[i])[j] : j \in 1..Len(GroupOccurrences(list[i]))} :
            r \in 1..Len(enriched)

\* C16: once build_report has filled in relpath and mod, no later operation
\* (grouping, compute_impact_unified, _augment_json_with_impact, the Markdown
\* and HTML builders, GUI preview filtering) changes any field of any
\* Occurrence: the entries, which the groups share, stay equal to their value
\* at the end of enrichment, and the impact and option fields are on the
\* groups and on the report root only.
C16_OccurrencesFrozen ==
    pc \in {"group", "done"} =>
        /\ entries = enriched
        /\ \A i \in 1..Len(entries) :
               DOMAIN entries[i] = {"annotation", "class", "method", "func_sig", "file",
                                    "line", "relpath", "mod"}
        /\ RefsValid(groups.conflicts) /\ RefsValid(groups.wrap_coexistence)
        /\ RefsValid(groups.replace_wrap_coexistence) /\ RefsValid(preview.conflicts)

\* every later operation has run on a report with a conflict: the group has
\* its impact fields, the root its options, the preview is filtered by mod
\* and both outputs are rendered
C16_Witness ==
    /\ pc = "done"
    /\ Len(groups.conflicts) > 0
    /\ groups.conflicts[1].impact.attached
    /\ options.attached /\ options.legend
    /\ preview.filtered /\ Len(preview.conflicts) > 0
    /\ Len(preview.conflicts[1].occurrences) < Len(groups.conflicts[1].occurrences)
    /\ rendered.markdown.done /\ rendered.html.done

\* the (class, method) keys of a list of groups or headings, in list order
KeysOf(list) == [i \in 1..Len(list) |-> <<list[i].class, list[i].method>>]

\* keys in strictly ascending (class, method) order
Ascending(keys) ==
    \A i, j \in 1..Len(keys) :
        i < j => KeyLess([class |-> keys[i][1], method |-> keys[i][2]],
                         [class |-> keys[j][1], method |-> keys[j][2]])

\* the same keys, each once
SameKeys(a, b) == Len(a) = Len(b) /\ {a[i] : i \in 1..Len(a)} = {b[i] : i \in 1..Len(b)}

GroupedOccurrences ==
    UNION ({{report.conflicts[i].occurrences[j] :
                 j \in 1..Len(report.conflicts[i].occurrences)} :
               i \in 1..Len(report.conflicts)}
           \cup {{report.wrap_coexistence[i].occurrences[j] :
                     j \in 1..Len(report.wrap_coexistence[i].occurrences)} :
                   i \in 1..Len(report.wrap_coexistence)}
           \cup {{report.replace_wrap_coexistence[i].occurrences_replace[j] :
                     j \in 1..Len(report.replace_wrap_coexistence[i].occurrences_replace)} :
                   i \in 1..Len(report.replace_wrap_coexistence)}
           \cup {{report.replace_wrap_coexistence[i].occurrences_wrap[j] :
                     j \in 1..Len(report.replace_wrap_coexistence[i].occurrences_wrap)} :
                   i \in 1..Len(report.replace_wrap_coexistence)})

\* the files with a replaceGlobal entry
GlobalFiles == {report.entries[i].file :
                   i \in {j \in 1..Len(report.entries) :
                             report.entries[j].annotation = "replaceGlobal"}}

\* C18: replaceGlobal occurrences are counted in annotation_counts
\* (annotation_counts[k] is the number of entries of kind k, for every kind)
\* but never contribute to conflicts, wrap_coexistence or
\* replace_wrap_coexistence, even when the same global function is replaced
\* in two or more distinct files.
C18_GlobalsCountedNotGrouped ==
    (pc = "done" /\ ~raised) =>
        /\ \A k \in AnnotationKinds :
               report.annotation_counts[k] =
                   Cardinality({i \in 1..Len(report.entries) :
                                   report.entries[i].annotation = k})
        /\ \A e \in GroupedOccurrences : e.annotation # "replaceGlobal"
        /\ \A key \in AllGroupKeys(report.conflicts)
                   \cup AllGroupKeys(report.wrap_coexistence)
                   \cup AllGroupKeys(report.replace_wrap_coexistence) :
               \E i \in 1..Len(report.entries) :
                   /\ report.entries[i].annotation # "replaceGlobal"
                   /\ <<report.entries[i].class, report.entries[i].method>> = key

\* the global function Bar is replaced in two files: two replaceGlobal
\* entries are counted and no group is reported
C18_Witness ==
    /\ pc = "done" /\ ~raised
    /\ Cardinality(GlobalFiles) = 2
    /\ report.annotation_counts["replaceGlobal"] = 2
    /\ report.conflicts = <<>> /\ report.wrap_coexistence = <<>>
    /\ report.replace_wrap_coexistence = <<>>

(***************************************************************************)
(* Properties of the lines between an annotation and its declaration       *)
(***************************************************************************)

\* a line of white space only
IsBlank(line) == \A i \in 1..Len(line) : line[i] \in WS

\* a line that starts with // or /*, or ends with */, white space aside
IsCommentLine(line) ==
    LET t == Strip(line)
    IN  \/ StartsWithAt(t, 1, <<"/", "/">>)
        \/ StartsWithAt(t, 1, <<"/", "*">>)
        \/ (Len(t) >= 2 /\ SubSeq(t, Len(t) - 1, Len(t)) = <<"*", "/">>)

\* a line that starts with @ and is not an annotation of the three kinds
IsAttributeLine(line) ==
    /\ StartsWithAt(LStrip(line), 1, <<"@">>)
    /\ ~ANNOTATION_RE(line).ok

\* the lines C19 names
ToleratedAsStated(line) ==
    IsBlank(line) \/ IsCommentLine(line) \/ IsAttributeLine(line)

\* the same, an attribute line counting only if it is without the token func
ToleratedWithoutFunc(line) ==
    \/ IsBlank(line)
    \/ IsCommentLine(line)
    \/ (IsAttributeLine(line) /\ ~HasFuncToken(line))

\* a step of the loop on a line of the class Tol leaves the buffer and the
\* entries as they are
PassOverStep(Tol(_)) ==
    (scanPc = "loop" /\ idx < Len(lines) /\ Tol(lines[idx + 1]))
        => (pending' = pending /\ scanned' = scanned)

\* the entries the annotation on line a has produced
EntriesOfLine(a) == SelectSeq(scanned, LAMBDA e : e.line = a)

\* once the scan is over, an annotation followed by lines of the class Tol
\* only and then by a declaration has its entries, one per listed class, for
\* that declaration
StillProduces(Tol(_)) ==
    (scanPc = "done" /\ readable) =>
        \A a \in 1..Len(lines) : \A d \in 1..Len(lines) :
            ( /\ a < d
              /\ ANNOTATION_RE(lines[a]).ok
              /\ IsDeclLine(lines[d])
              /\ \A k \in (a + 1)..(d - 1) : Tol(lines[k]) )
            => LET m  == ANNOTATION_RE(lines[a])
                   cs == ParseClasses(m.ann, m.args)
                   es == EntriesOfLine(a)
               IN  /\ Len(es) = Len(cs)
                   /\ \A c \in 1..Len(cs) :
                          /\ es[c].class = cs[c]
                          /\ es[c].annotation = m.ann
                          /\ es[c].method = DeclaredName(lines[d])

IsFlushLine(line) ==
    /\ ~ANNOTATION_RE(line).ok
    /\ ~IsBlank(line)
    /\ ~IsCommentLine(line)
    /\ HasFuncToken(line)
    /\ FUNC_RE(line).ok

\* a non-blank, non-comment line that is neither an annotation nor a function
\* declaration and does not start with @
IsUnrelated(line) ==
    /\ ~IsBlank(line)
    /\ ~IsCommentLine(line)
    /\ ~ANNOTATION_RE(line).ok
    /\ ~IsFlushLine(line)
    /\ ~StartsWithAt(LStrip(line), 1, <<"@">>)

\* a step on an unrelated line empties the buffer and emits nothing
ClearStep ==
    (scanPc = "loop" /\ idx < Len(lines) /\ IsUnrelated(lines[idx + 1]))
        => (pending' = <<>> /\ scanned' = scanned)

\* a step on a declaration line with an empty buffer emits nothing
EmptyFlushStep ==
    (scanPc = "loop" /\ idx < Len(lines) /\ IsFlushLine(lines[idx + 1]) /\ pending = <<>>)
        => (pending' = <<>> /\ scanned' = scanned)

\* an annotation with an unrelated line after it and no declaration between
\* the two has no entry, now or later
NoEntryAcrossUnrelated ==
    \A a \in 1..idx : \A u \in 1..idx :
        ( /\ a < u
          /\ ANNOTATION_RE(lines[a]).ok
          /\ IsUnrelated(lines[u])
          /\ \A k \in (a + 1)..(u - 1) : ~IsFlushLine(lines[k]) )
        => EntriesOfLine(a) = <<>>

\* C20: a non-blank, non-comment line that is neither an annotation nor a
\* function declaration and does not start with @ empties the pending buffer
\* and emits nothing; the annotations before it never produce an Occurrence;
\* a function declaration reached with an empty buffer emits nothing.
C20_UnrelatedLineClears ==
    [][ClearStep /\ EmptyFlushStep]_vars /\ []NoEntryAcrossUnrelated

\* an annotation, a statement, a declaration: the scan is over with no entry
C20_Witness ==
    /\ scanPc = "done"
    /\ lines = <<L_ReplaceFoo, L_Statement, L_FuncBar>>
    /\ scanned = <<>>
    /\ pending = <<>>

(***************************************************************************)
(* Properties of declaration lines and of the queued classes               *)
(***************************************************************************)

\* the identifier a declaration line of DeclVocab declares
NameDeclared(line) == IF line = L_FuncBazIndented THEN sBaz ELSE sBar

\* a step of the loop on a declaration line with a non-empty buffer emits one
\* entry per queued class for the declared identifier and empties the buffer
DeclStep ==
    (scanPc = "loop" /\ idx < Len(lines) /\ lines[idx + 1] \in DeclVocab /\ pending # <<>>)
        => /\ pending' = <<>>
           /\ Len(scanned') = Len(scanned) + TotalClasses(pending)
           /\ SubSeq(scanned', 1, Len(scanned)) = scanned
           /\ \A i \in (Len(scanned) + 1)..Len(scanned') :
                  scanned'[i].method = NameDeclared(lines[idx + 1])

\* C21: every non-blank, non-comment line that holds the token func followed
\* by an identifier and an opening parenthesis, whatever precedes the token
\* (nothing, spaces, a tab, modifier keywords), is a function declaration:
\* reached with a non-empty pending buffer it emits the queued Occurrences
\* and empties the buffer.
C21_EveryDeclarationFlushes == [][DeclStep]_vars

\* the classes an annotation line of the sample lines is to queue: <global>
\* for replaceGlobal, <unknown> for an empty list, else the arguments between
\* the commas, trimmed, in their order
ExpectedClasses(line) ==
    CASE line \in {L_ReplaceFoo, L_WrapFoo} -> <<sFoo>>
      [] line \in {L_ReplaceFooBar, L_ReplaceSpaced} -> <<sFoo, sBar>>
      [] line \in {L_ReplaceGlobal, L_GlobalFooBar} -> <<T_global>>
      [] line \in {L_ReplaceEmpty, L_WrapEmpty} -> <<T_unknown>>
      [] line = L_ReplaceBlankArg -> <<<<>>>>
      [] line = L_ReplaceTrailing -> <<sFoo, <<>>>>
      [] line = L_ReplaceDoubled -> <<sFoo, <<>>, sBar>>

\* C22: a replaceGlobal annotation queues exactly one class, <global>,
\* whatever its argument text; a replaceMethod or wrapMethod annotation with
\* an empty argument list queues exactly one class, <unknown>; otherwise the
\* queued classes are the comma-separated arguments, trimmed, in their
\* written order.
C22_QueuedClasses ==
    \A i \in 1..Len(pending) :
        pending[i].classes = ExpectedClasses(lines[pending[i].line])

\* '@replaceMethod( Foo , Bar )' has queued Foo and Bar, in this order
C22_Witness ==
    /\ scanPc = "loop"
    /\ idx = 1
    /\ lines[1] = L_ReplaceSpaced
    /\ Len(pending) = 1
    /\ pending[1].classes = <<sFoo, sBar>>

\* C29: no Occurrence of scan_file has an empty class name, also when the
\* argument list of the annotation is white space only or has a trailing or
\* a doubled comma.
C29_ClassNeverEmpty ==
    \A i \in 1..Len(scanned) : scanned[i].class # <<>>

(***************************************************************************)
(* Properties of the signature bonuses                                     *)
(***************************************************************************)

\* the declaration line the first occurrence of the call was recorded for
FirstLine ==
    CHOOSE l \in SignatureLines : args.entries.v[1] = Occurrence(l)

\* whether the function of a declaration line returns something other than
\* void
ReturnsValue(line) == line \in {L_FuncBar, L_FuncCallback, L_FuncTwo}

\* the number of parameters of the function of a declaration line
Parameters(line) ==
    CASE line = L_FuncBar -> 1
      [] line \in {L_FuncCallback, L_FuncTwo} -> 2
      [] OTHER -> 0

\* the severity under the probing profiles for a score of n
ProbeSeverity(n) ==
    CASE n = 0 -> "Low" [] n = 1 -> "Medium" [] n = 2 -> "High" [] OTHER -> "Critical"

\* C23: the has_return bonus is added exactly when the signature of the first
\* occurrence holds -> followed by a return type other than void, in any
\* letter case; a function declared -> Void never receives it, also when the
\* signature is the declaration line scan_file records, as in
\* 'func Baz() -> Void {'.
C23_ReturnBonusIffNonVoid ==
    \A i \in 1..Len(calls) :
        (args \in SignatureArgs /\ args.config = RETURN_PROBE) =>
            calls[i].baseline.severity =
                ProbeSeverity(IF ReturnsValue(FirstLine) THEN 1 ELSE 0)

\* C24: arg_count is the number of non-empty comma-separated segments between
\* the outermost parentheses of the signature of the first occurrence, a
\* parameter list with parentheses of its own being counted over its whole
\* extent; the signatures of the later occurrences do not influence the
\* score.
C24_ArgCountOutermost ==
    \A i \in 1..Len(calls) :
        (args \in SignatureArgs /\ args.config = ARGS_PROBE) =>
            calls[i].baseline.severity = ProbeSeverity(Parameters(FirstLine))

(***************************************************************************)
(* C25: the shape of a ConflictGroup                                       *)
(***************************************************************************)

RECURSIVE KeepsOrder(_, _)
\* whether occ can be read off es from left to right, skipping entries
KeepsOrder(occ, es) ==
    IF occ = <<>> THEN TRUE
    ELSE IF es = <<>> THEN FALSE
    ELSE IF Head(occ) = Head(es) THEN KeepsOrder(Tail(occ), Tail(es))
    ELSE KeepsOrder(occ, Tail(es))

\* a list of str in strictly ascending order: sorted and free of duplicates
StrictlyAscending(list) == \A i \in 1..(Len(list) - 1) : StrLess(list[i], list[i + 1])

WellFormedConflict(g) ==
    /\ \A i \in 1..Len(g.occurrences) :
           /\ g.occurrences[i].annotation = "replaceMethod"
           /\ g.occurrences[i].class = g.class
           /\ g.occurrences[i].method = g.method
    /\ StrictlyAscending(g.mods)
    /\ {g.mods[i] : i \in 1..Len(g.mods)}
           = {g.occurrences[i].mod : i \in 1..Len(g.occurrences)}
    /\ g.count = Len(g.occurrences)
    /\ g.count >= 2
    /\ KeepsOrder(g.occurrences, report.entries)

\* C25: every ConflictGroup of the returned report holds only replaceMethod
\* occurrences of its own class and method; mods is the sorted duplicate-free
\* list of exactly their mod values; count = len(occurrences) >= 2; the
\* occurrences stand in the order of the flat entries list; and no
\* (class, method) key has two ConflictGroups.
C25_ConflictGroupShape ==
    pc = "done" =>
        /\ \A i \in 1..Len(report.conflicts) : WellFormedConflict(report.conflicts[i])
        /\ \A i, j \in 1..Len(report.conflicts) :
               <<report.conflicts[i].class, report.conflicts[i].method>>
                   = <<report.conflicts[j].class, report.conflicts[j].method>> => i = j

\* a conflict between two mods whose first occurrence belongs to the mod that
\* sorts last, beside entries that are not part of the group
C25_Witness ==
    /\ pc = "done"
    /\ \E i \in 1..Len(report.conflicts) :
           /\ Len(report.conflicts[i].mods) = 2
           /\ report.conflicts[i].occurrences[1].mod = report.conflicts[i].mods[2]
           /\ Len(report.entries) > report.conflicts[i].count

(***************************************************************************)
(* C27: the severity in the JSON output and in the rendered outputs        *)
(***************************************************************************)

\* the coexistence lists are those build_report returned: main has not
\* popped them, the run is one with --wrap include
ListsKept ==
    /\ Len(groups.wrap_coexistence) = Len(report.wrap_coexistence)
    /\ Len(groups.replace_wrap_coexistence) = Len(report.replace_wrap_coexistence)

\* the severity labels a list of rendered sections shows for a conflict
LabelsFor(sections, c) ==
    {sections[j].severity : j \in {k \in 1..Len(sections) :
        sections[k].class = c.class /\ sections[k].method = c.method}}

\* C27: in a run with --wrap include, once the impact fields are on the
\* conflict groups and the Markdown and HTML outputs are built, the
\* impact_severity of every conflict group is the severity label both outputs
\* show for it, also when the method has a wrapMethod coexistence.
C27_JsonSeverityAsRendered ==
    (pc = "done" /\ ListsKept /\ rendered.markdown.done /\ rendered.html.done) =>
        \A i \in 1..Len(groups.conflicts) :
            groups.conflicts[i].impact.attached =>
                /\ LabelsFor(rendered.markdown.sections, groups.conflicts[i])
                       = {groups.conflicts[i].impact.impact_severity}
                /\ LabelsFor(rendered.html.sections, groups.conflicts[i])
                       = {groups.conflicts[i].impact.impact_severity}

(***************************************************************************)
(* C26: the severity of the GUI preview and of the exported HTML           *)
(***************************************************************************)

\* what _assess_conflict_impact returns for a conflict of the scanned report
\* in the current state of the GUI
PreviewSeverity(c) ==
    assess_conflict_impact(entries, last_report, c, c.occurrences, AppConfig).severity

\* the overall and the baseline severity of a conflict under the default
\* profile: with and without the wrap bonus
OverallSeverity(c) ==
    compute_impact_unified(PyStr(c.class), PyStr(c.method), PyMods(GroupMods(c)),
                           PyOccurrences(entries, c.occurrences), CurrentDefault, TRUE,
                           CurrentDefault).severity

BaselineSeverity(c) ==
    compute_impact_unified(PyStr(c.class), PyStr(c.method), PyMods(GroupMods(c)),
                           PyOccurrences(entries, c.occurrences), CurrentDefault, FALSE,
                           CurrentDefault).severity

\* the conflicts the preview shows with all their occurrences, each with the
\* exported section of the same method
ShownWhole ==
    {<<j, i>> \in (1..Len(preview.conflicts)) \X (1..Len(groups.conflicts)) :
        /\ preview.conflicts[j].class = groups.conflicts[i].class
        /\ preview.conflicts[j].method = groups.conflicts[i].method
        /\ preview.conflicts[j].occurrences = groups.conflicts[i].occurrences}

total_conflicts == Len(last_report.conflicts)

\* the conflicts a re-render with every filter relaxed would show
ShownWhenRelaxed ==
    FilterConflicts(entries, last_report, last_report.conflicts, DefaultFilters, AppConfig)

\* C28: from the moment a scan has stored its report, whatever filter
\* changes, theme changes and re-renders follow and whatever the preview
\* engine, _last_report is the unfiltered report of the scan, a re-render
\* with the filters relaxed shows every conflict of the scan, and
\* total_conflicts is the unfiltered count.
C28_LastReportUnfiltered ==
    ~last_report.none =>
        /\ last_report = Held(groups)
        /\ Len(ShownWhenRelaxed) = Len(groups.conflicts)
        /\ total_conflicts = Len(groups.conflicts)

(***************************************************************************)
(* C30: the worker threads of the GUI                                      *)
(***************************************************************************)

\* the worker threads that have been started and have not ended
Running == {w \in 1..Len(workers) : workers[w] # "done"}

\* C30 (first part): at most one scan worker thread runs at any time.
C30_AtMostOneWorker == Cardinality(Running) <= 1

\* C30 (second part): once every started worker has ended, by success or by
\* exception, the Run button is eventually enabled.
C30_RunEventuallyEnabled ==
    (workers # <<>> /\ Running = {}) ~> (btn_run = "normal")


====
